---- MODULE Spec2Model ----
(***************************************************************************)
(* Model of the MyTownGovt scraper: the on-disk page cache                 *)
(* (mytowngov_common.Cache), the page fetcher (mytowngov_common.fetch_page)*)
(* the meeting extraction with its de-duplication and the board details    *)
(* (BoardScraper), the homepage extraction (scrape_homepage), the error    *)
(* tracker (ErrorTracker), the orchestrator with its worker pools          *)
(* (use_scrapers) and the document conversion of scrape_meeting.           *)
(***************************************************************************)
EXTENDS Integers, Sequences, FiniteSets, TLC

VARIABLES
    files,        \* cache directory: url -> cache file (exists, content, age)
    enabled,      \* Cache.enabled
    lastop,       \* the Cache method called last, with its inputs and outcome
    pc,           \* position of the fetch_page call in progress
    fp,           \* fetch_page's parameters and locals
    obs,          \* what the fetch_page call in progress has done so far
    spc,              \* position of the _scrape_meetings call in progress
    meetings,         \* _scrape_meetings: the list of emitted meetings
    seen_meetings,    \* _scrape_meetings: the set of keys seen
    current_meeting,  \* _scrape_meetings: the pending meeting of the Upcoming scan
    hist,             \* the candidates processed and the keys emitted, in order
    tracker,          \* the run's ErrorTracker: errors, error_counts, totals
    dpc,              \* position of the _scrape_board_details call in progress
    dpage,            \* the board page as the selectors of that call see it
    details,          \* _scrape_board_details: the dict it returns
    sel,              \* _scrape_board_details: index of the selector tried next
    hpc,              \* position of the scrape_homepage call in progress
    hpage,            \* the homepage and the All Meetings view as that call finds them
    boards_section,   \* scrape_homepage: whether the boards heading was found
    boards_data,      \* scrape_homepage: the board records
    agencies_data,    \* scrape_homepage: the agency records
    calls,            \* the add_error call of each worker thread: its position and its locals
    mpc,              \* position of use_scrapers.main
    upc,              \* position of each process_board and process_meeting call
    failed,           \* the units that met an exception
    scraped,          \* process_meeting: what scrape_meeting returned
    drivers,          \* the browser sessions, named by the unit that created them
    local_meeting_data, \* process_board: the list handed to its meeting workers
    local_documents,  \* process_board: the documents list handed to them
    collected,        \* the units whose future has been read by its submitter
    all_meeting_data, \* main: the aggregated meetings
    all_documents,    \* main: the aggregated documents
    validation,       \* main: the validation issues and the files they were checked against
    summary,          \* main: the error summary is logged and the error log written
    config,           \* use_scrapers: the sizes of the two thread pools in config.yaml
    conv,             \* scrape_meeting: one document row, the files on disk and the locals
    rel,              \* scrape_meeting: the site's related-meetings tables and the stack of the calls in progress
    cio,              \* the cache file of one URL and the Cache calls of the threads that share it
    dl                \* scrape_meeting: the download loop of one document row

fetchVars == <<files, enabled, lastop, pc, fp, obs>>
scrapeVars == <<spc, meetings, seen_meetings, current_meeting, hist>>
trackVars == <<tracker>>
detailVars == <<dpc, dpage, details, sel>>
homeVars == <<hpc, hpage, boards_section, boards_data, agencies_data>>
callVars == <<calls>>
runVars == <<mpc, upc, failed, scraped, drivers, local_meeting_data, local_documents,
             collected, all_meeting_data, all_documents, validation, summary, config>>
docVars == <<conv>>
relVars == <<rel>>
shareVars == <<cio>>
downVars == <<dl>>
\* the variables of the other parts of the program, which the cache, the
\* fetcher and the meeting extraction never touch
otherVars == <<trackVars, detailVars, homeVars, callVars, runVars, docVars, relVars, shareVars, downVars>>

-----------------------------------------------------------------------------
(* Bounds of the model *)

MaxRetries == 2

\* Cache.ttl_hours.  A file's age is now - mtime in hours; the code reads it
\* only in the comparison with ttl_hours, so ages are counted up to TtlHours.
TtlHours == 1

Urls == {"board1", "board2"}

-----------------------------------------------------------------------------
(* Page contents.  A content is named, and Text gives what the code reads   *)
(* of it: len(content), len(content.strip()), '<body></body>' in content    *)
(* and which of the marker strings occur in it.                             *)

Markers == {"Past Meetings", "Upcoming Meetings", "Boards and Committees"}

None == "None"

Text(c) ==
    CASE c = "empty"       -> [raw |-> 0,   strip |-> 0,   emptyBody |-> FALSE, markers |-> {}]
      [] c = "blank"       -> [raw |-> 4,   strip |-> 0,   emptyBody |-> FALSE, markers |-> {}]
      [] c = "placeholder" -> [raw |-> 150, strip |-> 150, emptyBody |-> TRUE,  markers |-> {"Boards and Committees"}]
      [] c = "padded"      -> [raw |-> 120, strip |-> 99,  emptyBody |-> FALSE, markers |-> {"Past Meetings"}]
      [] c = "plain"       -> [raw |-> 100, strip |-> 100, emptyBody |-> FALSE, markers |-> {}]
      [] c = "past"        -> [raw |-> 100, strip |-> 100, emptyBody |-> FALSE, markers |-> {"Past Meetings"}]
      [] c = "upcoming"    -> [raw |-> 200, strip |-> 200, emptyBody |-> FALSE, markers |-> {"Upcoming Meetings"}]
      [] c = "boards"      -> [raw |-> 200, strip |-> 200, emptyBody |-> FALSE, markers |-> {"Boards and Committees"}]

Pages == {"empty", "blank", "placeholder", "padded", "plain", "past", "upcoming", "boards"}

\* the minimum length of line 96 and line 322
MinContentLen == 100

NoFile == [exists |-> FALSE, content |-> None, age |-> 0]

\* a file just written: its mtime is now
CacheFile(c) == [exists |-> TRUE, content |-> c, age |-> 0]

\* the module mytowngov_common binds no global named logger: the Cache
\* methods that use it raise NameError when they reach the statement
logger_defined == FALSE

-----------------------------------------------------------------------------
(* Cache *)

\* is_cached with the age compared by <=
is_cached_le(f, en, url) ==
    IF ~en THEN FALSE
    ELSE IF ~f[url].exists THEN FALSE
    ELSE f[url].age <= TtlHours

\* Cache.is_cached, lines 65-72
is_cached(f, en, url) ==
    IF ~en THEN FALSE
    ELSE IF ~f[url].exists THEN FALSE
    ELSE f[url].age < TtlHours

\* Cache.get_cached, lines 74-77: open() raises when the file is missing
get_cached(f, url) ==
    IF f[url].exists
    THEN [exc |-> "none", ret |-> f[url].content]
    ELSE [exc |-> "FileNotFoundError", ret |-> None]

\* cache_content that writes nothing
cache_content_skip(f, en, url, content) == f

\* Cache.cache_content, lines 79-84
cache_content(f, en, url, content) ==
    IF ~en THEN f
    ELSE [f EXCEPT ![url] = CacheFile(content)]

\* Cache.invalidate_cache, lines 86-90: the file is removed, then the log
\* statement of line 90 runs
invalidate_cache(f, url) ==
    IF f[url].exists
    THEN [exc |-> IF logger_defined THEN "none" ELSE "NameError",
          files |-> [f EXCEPT ![url] = NoFile]]
    ELSE [exc |-> "none", files |-> f]

\* line 96
content_rejected(c) ==
    Text(c).raw = 0 \/ Text(c).emptyBody \/ Text(c).strip < MinContentLen

\* line 100
lacks_markers(c) ==
    /\ "Past Meetings" \notin Text(c).markers
    /\ "Upcoming Meetings" \notin Text(c).markers
    /\ "Boards and Committees" \notin Text(c).markers

\* Cache.is_valid_cached_content, lines 92-104.  The log statements of lines
\* 97 and 101 come before the calls of invalidate_cache.
is_valid_cached_content(f, en, url) ==
    IF ~is_cached(f, en, url)
    THEN [exc |-> "none", ret |-> FALSE, files |-> f]
    ELSE LET got == get_cached(f, url) IN
         IF got.exc # "none"
         THEN [exc |-> got.exc, ret |-> FALSE, files |-> f]
         ELSE IF content_rejected(got.ret) \/ lacks_markers(got.ret)
         THEN IF ~logger_defined
              THEN [exc |-> "NameError", ret |-> FALSE, files |-> f]
              ELSE LET inv == invalidate_cache(f, url) IN
                   [exc |-> inv.exc, ret |-> FALSE, files |-> inv.files]
         ELSE [exc |-> "none", ret |-> TRUE, files |-> f]

-----------------------------------------------------------------------------
(* The Cache methods, called on the cache directory as it is *)

NoOp ==
    [name |-> "none", url |-> "board1", arg |-> None, exc |-> "none",
     ret |-> FALSE, data |-> None, before |-> [u \in Urls |-> NoFile],
     en |-> FALSE]

Op(name, url, arg, exc, ret, data) ==
    [name |-> name, url |-> url, arg |-> arg, exc |-> exc, ret |-> ret,
     data |-> data, before |-> files, en |-> enabled]

\* Cache.__init__, lines 53-57: a new Cache object on the same directory
NewCache(en) ==
    /\ pc = "idle"
    /\ enabled' = en
    /\ lastop' = NoOp
    /\ UNCHANGED <<files, pc, fp, obs>>
    /\ UNCHANGED <<scrapeVars, otherVars>>

\* time passes
Older(file) ==
    IF file.exists /\ file.age < TtlHours THEN [file EXCEPT !.age = @ + 1] ELSE file

\* an hour passes
Tick ==
    /\ \E u \in Urls : files[u].exists /\ files[u].age < TtlHours
    /\ files' = [u \in Urls |-> Older(files[u])]
    /\ lastop' = NoOp
    /\ UNCHANGED <<enabled, pc, fp, obs>>
    /\ UNCHANGED <<scrapeVars, otherVars>>

CallIsCached(url) ==
    /\ pc = "idle"
    /\ lastop' = Op("is_cached", url, None, "none",
                    is_cached(files, enabled, url), None)
    /\ UNCHANGED <<files, enabled, pc, fp, obs>>
    /\ UNCHANGED <<scrapeVars, otherVars>>

CallGetCached(url) ==
    /\ pc = "idle"
    /\ LET got == get_cached(files, url) IN
       lastop' = Op("get_cached", url, None, got.exc, FALSE, got.ret)
    /\ UNCHANGED <<files, enabled, pc, fp, obs>>
    /\ UNCHANGED <<scrapeVars, otherVars>>

CallCacheContent(url, content) ==
    /\ pc = "idle"
    /\ files' = cache_content(files, enabled, url, content)
    /\ lastop' = Op("cache_content", url, content, "none", FALSE, None)
    /\ UNCHANGED <<enabled, pc, fp, obs>>
    /\ UNCHANGED <<scrapeVars, otherVars>>

CallInvalidateCache(url) ==
    /\ pc = "idle"
    /\ LET inv == invalidate_cache(files, url) IN
       /\ files' = inv.files
       /\ lastop' = Op("invalidate_cache", url, None, inv.exc, FALSE, None)
    /\ UNCHANGED <<enabled, pc, fp, obs>>
    /\ UNCHANGED <<scrapeVars, otherVars>>

CallIsValidCachedContent(url) ==
    /\ pc = "idle"
    /\ LET v == is_valid_cached_content(files, enabled, url) IN
       /\ files' = v.files
       /\ lastop' = Op("is_valid_cached_content", url, None, v.exc, v.ret, None)
    /\ UNCHANGED <<enabled, pc, fp, obs>>
    /\ UNCHANGED <<scrapeVars, otherVars>>

-----------------------------------------------------------------------------
(* fetch_page *)

NoCall ==
    [url |-> "board1", bypass_cache |-> FALSE, retries |-> 0, attempt |-> 0,
     content |-> None]

NoObs ==
    [navs |-> 0, sleeps |-> 0, writes |-> 0, fromCache |-> FALSE,
     before |-> [u \in Urls |-> NoFile], en |-> FALSE, at |-> 0,
     exc |-> "none", okAt |-> -1, evicted |-> FALSE]

\* fetch_page that never reads the cache
use_cache_never(bypass_cache, valid) == FALSE

\* line 286: the cached content is used
use_cache(bypass_cache, valid) == ~bypass_cache /\ valid

\* the check of the fetched content without the length test
fetched_rejected_nolen(c) == Text(c).emptyBody

\* lines 322-323: the fetched content is refused
fetched_rejected(c) == Text(c).emptyBody \/ Text(c).strip < MinContentLen

\* the retry loop giving up one attempt early
after_attempt_early(ok, attempt, retries) ==
    IF ok THEN "returned"
    ELSE IF attempt < retries - 2 THEN "sleep"
    ELSE "raised"

\* lines 326-333: where the retry loop goes after an attempt
after_attempt(ok, attempt, retries) ==
    IF ok THEN "returned"
    ELSE IF attempt < retries - 1 THEN "sleep"
    ELSE "raised"

\* the retry loop never entered
loop_entry_never(retries) == "returned"

\* line 293: range(retries) is entered
loop_entry(retries) == IF retries > 0 THEN "attempt" ELSE "returned"

\* lines 282-292: the call, up to the retry loop
FetchPage(url, bypass_cache, retries) ==
    /\ pc = "idle"
    /\ lastop' = NoOp
    /\ LET v == IF bypass_cache
                THEN [exc |-> "none", ret |-> FALSE, files |-> files]
                ELSE is_valid_cached_content(files, enabled, url)
           seen == [NoObs EXCEPT !.before = files, !.en = enabled,
                                 !.evicted = files[url].exists /\ ~v.files[url].exists]
       IN  IF v.exc # "none"
           THEN /\ files' = v.files
                /\ pc' = "raised"
                /\ fp' = [NoCall EXCEPT !.url = url, !.bypass_cache = bypass_cache,
                                        !.retries = retries]
                /\ obs' = [seen EXCEPT !.exc = v.exc]
           ELSE IF use_cache(bypass_cache, v.ret)
           THEN LET got == get_cached(v.files, url) IN
                /\ files' = v.files
                /\ pc' = IF got.exc = "none" THEN "returned" ELSE "raised"
                /\ fp' = [NoCall EXCEPT !.url = url, !.bypass_cache = bypass_cache,
                                        !.retries = retries, !.content = got.ret]
                /\ obs' = [seen EXCEPT !.exc = got.exc, !.fromCache = (got.exc = "none")]
           ELSE /\ files' = v.files
                /\ pc' = loop_entry(retries)
                /\ fp' = [NoCall EXCEPT !.url = url, !.bypass_cache = bypass_cache,
                                        !.retries = retries]
                /\ obs' = seen
    /\ UNCHANGED enabled
    /\ UNCHANGED <<scrapeVars, otherVars>>

\* What the write of the cache file (lines 83-84) meets: it succeeds ("ok"),
\* open() raises and the file is as it was ("refused"), or the write raises
\* after open() has emptied the file ("torn")
DiskOutcomes == {"ok", "refused", "torn"}

\* lines 294-333: one attempt.  The browser's answer is the input: the
\* navigation or the wait raises ("nav_error"), the page has an empty body
\* ("blank_body", line 303), the debug copy cannot be written ("disk_error",
\* line 308), or the page source read is `page`; the write of the cache file
\* succeeds or raises (disk).
Attempt(answer, page, disk) ==
    /\ pc = "attempt"
    /\ lastop' = NoOp
    /\ LET loaded == answer = "loaded"
           disk_ok == disk = "ok"
           valid == loaded /\ ~fetched_rejected(page)
           torn == valid /\ enabled /\ disk = "torn"
           stored == valid /\ enabled /\ disk_ok
           ok == valid /\ (disk_ok \/ ~enabled)
           exc == IF ok THEN "none"
                  ELSE IF answer = "nav_error" THEN "WebDriverException"
                  ELSE IF answer = "disk_error" THEN "OSError"
                  ELSE IF ~valid THEN "ValueError"
                  ELSE "OSError"
           next == after_attempt(ok, fp.attempt, fp.retries)
       IN  /\ files' = IF stored THEN cache_content(files, enabled, fp.url, page)
                       ELSE IF torn THEN [files EXCEPT ![fp.url] = CacheFile("empty")]
                       ELSE files
           /\ pc' = next
           \* the local content (lines 317, 320) is read again only at line 334,
           \* which a call reaches after an attempt that passed line 325
           /\ fp' = [fp EXCEPT !.content = IF ok THEN page ELSE @]
           /\ obs' = [obs EXCEPT !.navs = @ + 1,
                                 !.writes = IF stored THEN @ + 1 ELSE @,
                                 !.okAt = IF ok THEN fp.attempt ELSE @,
                                 !.exc = IF next = "raised" THEN exc ELSE @]
    /\ UNCHANGED enabled
    /\ UNCHANGED <<scrapeVars, otherVars>>

\* line 330: time.sleep(delay), then the next iteration of the loop
Sleep ==
    /\ pc = "sleep"
    /\ pc' = "attempt"
    /\ fp' = [fp EXCEPT !.attempt = @ + 1]
    /\ obs' = [obs EXCEPT !.sleeps = @ + 1]
    /\ lastop' = NoOp
    /\ UNCHANGED <<files, enabled>>
    /\ UNCHANGED <<scrapeVars, otherVars>>

\* line 334 (or the exception leaves the function): back in the caller
Return ==
    /\ pc \in {"returned", "raised"}
    /\ pc' = "idle"
    /\ fp' = NoCall
    /\ obs' = NoObs
    /\ lastop' = NoOp
    /\ UNCHANGED <<files, enabled>>
    /\ UNCHANGED <<scrapeVars, otherVars>>

-----------------------------------------------------------------------------
(* BoardScraper._parse_date and BoardScraper._scrape_meetings *)

\* The date strings of the pages.  DateText gives the string with '\n'
\* replaced by ' ' and stripped (line 114), the strptime format the string
\* has, and the datetime it denotes.
DateStrings ==
    {"Mar 11, 2025 6:30 PM", "Mar 11, 2025\n6:30 PM", "March 12, 2025",
     "Mar 11, 2025", "TBD"}

DateText(d) ==
    CASE d = "Mar 11, 2025 6:30 PM"  -> [norm |-> "Mar 11, 2025 6:30 PM", shape |-> "%b %d, %Y %I:%M %p", value |-> "2025-03-11 18:30"]
      [] d = "Mar 11, 2025\n6:30 PM" -> [norm |-> "Mar 11, 2025 6:30 PM", shape |-> "%b %d, %Y %I:%M %p", value |-> "2025-03-11 18:30"]
      [] d = "March 12, 2025"        -> [norm |-> "March 12, 2025", shape |-> "%B %d, %Y", value |-> "2025-03-12 00:00"]
      [] d = "Mar 11, 2025"          -> [norm |-> "Mar 11, 2025", shape |-> "%b %d, %Y", value |-> "2025-03-11 00:00"]
      [] d = "TBD"                   -> [norm |-> "TBD", shape |-> "text", value |-> None]

\* the cascade without its last format
formats_short ==
    << "%b %d, %Y %I:%M %p %Z", "%b %d, %Y %I:%M %p", "%B %d, %Y %I:%M %p",
       "%Y-%m-%d %H:%M:%S" >>

\* lines 115-121
formats ==
    << "%b %d, %Y %I:%M %p %Z", "%b %d, %Y %I:%M %p", "%B %d, %Y %I:%M %p",
       "%Y-%m-%d %H:%M:%S", "%B %d, %Y" >>

\* datetime.strptime(date_str, fmt): None stands for ValueError
strptime(date_str, fmt) ==
    IF DateText(date_str).shape = fmt THEN DateText(date_str).value ELSE None

RECURSIVE try_formats(_, _)
\* lines 122-128: the first format that parses the string, from the i-th on
try_formats(date_str, i) ==
    IF i > Len(formats) THEN None
    ELSE IF strptime(date_str, formats[i]) # None THEN strptime(date_str, formats[i])
    ELSE try_formats(date_str, i + 1)

\* BoardScraper._parse_date, lines 112-131
parse_date(date_str) == try_formats(DateText(date_str).norm, 1)

MaxSteps == 4

board_name == "Planning Board"

Locations == {"Town House", "Cancelled"}

MeetingUrls == {"https://town/meeting?id=1", "https://town/meeting?id=2"}

\* a row of the Past Meetings table: the number of its cells, the text of
\* cells 0 and 1, and the href of the anchor of cell 4 ("no anchor": none)
Rows ==
    [cells : {5}, date_str : DateStrings, location : Locations,
     href : MeetingUrls \cup {"no anchor"}]
    \cup {[cells |-> 4, date_str |-> "TBD", location |-> "Town House", href |-> "no anchor"]}

\* an element of the Upcoming Meetings section: tag, text and href
Elements ==
    {[tag |-> "p", text |-> "Past Meetings", href |-> None],
     [tag |-> "a", text |-> "Details and Agenda", href |-> "https://town/meeting?id=1"],
     [tag |-> "p", text |-> "Agenda posted", href |-> None],
     [tag |-> "a", text |-> "All boards", href |-> "https://town/board?id=1"],
     [tag |-> "div", text |-> "", href |-> None]}
    \cup [tag : {"span"}, text : DateStrings \ {"TBD"}, href : {None}]
    \cup [tag : {"span"}, text : Locations, href : {None}]
    \cup [tag : {"a"}, text : {"View"}, href : MeetingUrls]

\* line 263: a section boundary
is_boundary(text) == text \in {"Past Meetings", "Regular Meetings", "Subcommittees"}

\* line 288: a month name occurs in the text
has_month(text) == text \in DateStrings \ {"TBD"}

\* line 290: a known location occurs in the text
has_location(text) == text \in Locations

\* line 294: "meeting" in href.lower()
href_is_meeting(href) == href \in MeetingUrls

\* lines 208, 270, 302
meeting_key(board, date_str, details_url) == <<board, date_str, details_url>>

\* lines 201, 269, 301
status_of(location) == IF location = "Cancelled" THEN "Cancelled" ELSE "Scheduled"

\* the membership test left out
is_new_always(key, seen) == TRUE

\* lines 209, 271, 303: the meeting is appended
is_new(key, seen) == key \notin seen

NoCurrent == [board_name |-> board_name, date |-> None, location |-> None, details_url |-> None]

NoHist == [cands |-> << >>, ekeys |-> << >>, steps |-> 0]

\* lines 206-220, 266-280 and 298-312: a candidate with its date string and
\* details URL is parsed, checked against seen_meetings and appended
Emit(date_str, location, details_url) ==
    LET date == parse_date(date_str)
        key == meeting_key(board_name, date_str, details_url)
        add == date # None /\ is_new(key, seen_meetings)
    IN  /\ seen_meetings' = IF add THEN seen_meetings \cup {key} ELSE seen_meetings
        /\ meetings' = IF add
                       THEN Append(meetings,
                                   [board_name |-> board_name, date |-> date,
                                    location |-> IF location = None THEN "" ELSE location,
                                    status |-> status_of(location),
                                    details_url |-> details_url])
                       ELSE meetings
        /\ hist' = [hist EXCEPT !.cands = Append(@, key),
                                !.ekeys = IF add THEN Append(@, key) ELSE @,
                                !.steps = @ + 1]

\* lines 266, 298: the pending meeting has a date and a details URL
complete(cur) == cur.date # None /\ cur.details_url # None

\* lines 133-192: the call, up to the rows of the Past Meetings table
ScrapeMeetings ==
    /\ spc = "idle"
    /\ spc' = "past"
    /\ meetings' = << >>
    /\ seen_meetings' = {}
    /\ current_meeting' = NoCurrent
    /\ hist' = NoHist
    /\ UNCHANGED <<fetchVars, otherVars>>

\* lines 196-222: one row of the Past Meetings table
PastRow(row) ==
    /\ spc = "past"
    /\ hist.steps < MaxSteps
    /\ IF row.cells < 5
       THEN /\ spc' = "past"
            /\ hist' = [hist EXCEPT !.steps = @ + 1]
            /\ UNCHANGED <<meetings, seen_meetings>>
       ELSE IF row.href = "no anchor"
       THEN \* find_element raises: lines 317-324, then line 332
            /\ spc' = "done"
            /\ hist' = [hist EXCEPT !.steps = @ + 1]
            /\ UNCHANGED <<meetings, seen_meetings>>
       ELSE /\ spc' = "past"
            /\ Emit(row.date_str, row.location, row.href)
    /\ UNCHANGED current_meeting
    /\ UNCHANGED <<fetchVars, otherVars>>

\* lines 223-254: the table is done or was not found; the Upcoming Meetings
\* section is found or not
EndPast(found) ==
    /\ spc = "past"
    /\ spc' = IF found THEN "upcoming" ELSE "done"
    /\ current_meeting' = NoCurrent
    /\ UNCHANGED <<meetings, seen_meetings, hist>>
    /\ UNCHANGED <<fetchVars, otherVars>>

\* lines 256-295: one element of the Upcoming Meetings section
UpcomingElement(elem) ==
    /\ spc = "upcoming"
    /\ hist.steps < MaxSteps
    /\ spc' = "upcoming"
    /\ IF elem.text = ""
       THEN /\ hist' = [hist EXCEPT !.steps = @ + 1]
            /\ UNCHANGED <<meetings, seen_meetings, current_meeting>>
       ELSE IF is_boundary(elem.text)
       THEN /\ IF complete(current_meeting)
               THEN Emit(current_meeting.date, current_meeting.location,
                         current_meeting.details_url)
               ELSE /\ hist' = [hist EXCEPT !.steps = @ + 1]
                    /\ UNCHANGED <<meetings, seen_meetings>>
            /\ current_meeting' = NoCurrent
       ELSE /\ hist' = [hist EXCEPT !.steps = @ + 1]
            /\ UNCHANGED <<meetings, seen_meetings>>
            /\ current_meeting' =
                 IF elem.text = "Details and Agenda" THEN current_meeting
                 ELSE IF has_month(elem.text)
                      THEN [current_meeting EXCEPT !.date = elem.text]
                 ELSE IF has_location(elem.text)
                      THEN [current_meeting EXCEPT !.location = elem.text]
                 ELSE IF elem.tag = "a" /\ elem.href # None /\ href_is_meeting(elem.href)
                      THEN [current_meeting EXCEPT !.details_url = elem.href]
                 ELSE current_meeting
    /\ UNCHANGED <<fetchVars, otherVars>>

\* lines 297-312: the last pending meeting
Finalize ==
    /\ spc = "upcoming"
    /\ spc' = "done"
    /\ IF complete(current_meeting)
       THEN Emit(current_meeting.date, current_meeting.location,
                 current_meeting.details_url)
       ELSE UNCHANGED <<meetings, seen_meetings, hist>>
    /\ UNCHANGED current_meeting
    /\ UNCHANGED <<fetchVars, otherVars>>

\* lines 331-332: the list is returned
ScrapeReturn ==
    /\ spc = "done"
    /\ spc' = "idle"
    /\ meetings' = << >>
    /\ seen_meetings' = {}
    /\ current_meeting' = NoCurrent
    /\ hist' = NoHist
    /\ UNCHANGED <<fetchVars, otherVars>>

-----------------------------------------------------------------------------
(* BoardScraper._scrape_board_details: the board name, chair and clerk *)

\* lines 57-62: the selectors, in the order they are tried
selectors ==
    <<"TAG_NAME h1", "XPATH //h1", "XPATH board-title", "XPATH text Planning Board">>

\* What wait.until(visibility_of_element_located(...)) and .text.strip() give
\* for one selector: "timeout" (TimeoutException), "error" (another
\* WebDriverException, such as a stale element), or the stripped text of the
\* element found, which is "" for a visible element without text.
SelectorOutcomes(i) ==
    IF i = 4 THEN {"timeout", "error", "Planning Board"}
    ELSE {"timeout", "error", "", "Planning Board", "Town of Hardwick"}

\* the lines of the text of the Members section, when the page has one
MemberLines ==
    {<< >>, <<"Ann, Chair">>, <<"Ann, Chair", "Bob, Clerk">>}

line_has_chair(line) == line = "Ann, Chair"

line_has_clerk(line) == line = "Bob, Clerk"

\* line.split(', Chair')[0].strip() and line.split(', Clerk')[0].strip()
split_name(line) == IF line = "Ann, Chair" THEN "Ann" ELSE "Bob"

DetailPages ==
    [body : BOOLEAN,
     sel : {f \in [1..4 -> {"timeout", "error", "", "Planning Board", "Town of Hardwick"}] :
               /\ \A i \in 1..4 : f[i] \in SelectorOutcomes(i)
               /\ f[2] = f[1]},   \* both locate the first h1 of the page
     members_found : BOOLEAN,
     members : MemberLines,
     clerk_field : {"absent", "Cy"}]

\* line 51
NoDetails == [name |-> "", chair |-> "", clerk |-> ""]

DetailsIdle ==
    /\ dpc = "idle"
    /\ dpage = [body |-> TRUE, sel |-> [i \in 1..4 |-> "timeout"],
                members_found |-> FALSE, members |-> << >>,
                clerk_field |-> "absent"]
    /\ details = NoDetails
    /\ sel = 0

notDetailVars == <<fetchVars, scrapeVars, trackVars, homeVars, callVars, runVars, docVars, relVars, shareVars, downVars>>

\* lines 50-55 (and 103-109 when the wait for the body times out)
ScrapeBoardDetails ==
    /\ dpc = "idle"
    /\ details' = NoDetails
    /\ sel' = 1
    /\ dpc' = IF dpage.body THEN "cascade" ELSE "returned"
    /\ UNCHANGED <<dpage, notDetailVars>>

\* lines 64-71: one iteration of the loop over the selectors; only a
\* TimeoutException moves on to the next selector, a found element ends the
\* loop whatever its text is (106-109: any other exception ends the call)
TrySelector ==
    /\ dpc = "cascade"
    /\ sel <= Len(selectors)
    /\ LET out == dpage.sel[sel]
       IN  CASE out = "timeout" ->
                    /\ sel' = sel + 1
                    /\ UNCHANGED <<dpc, details>>
             [] out = "error" ->
                    /\ dpc' = "returned"
                    /\ UNCHANGED <<sel, details>>
             [] OTHER ->
                    /\ details' = [details EXCEPT !.name = out]
                    /\ sel' = Len(selectors) + 1
                    /\ dpc' = "named"
    /\ UNCHANGED <<dpage, notDetailVars>>

\* the loop ends without a break
EndCascade ==
    /\ dpc = "cascade"
    /\ sel > Len(selectors)
    /\ dpc' = "named"
    /\ UNCHANGED <<dpage, details, sel, notDetailVars>>

\* lines 73-75: no name, the call returns the empty details
NoName ==
    /\ dpc = "named"
    /\ details.name = ""
    /\ dpc' = "returned"
    /\ UNCHANGED <<dpage, details, sel, notDetailVars>>

\* lines 84-99, for the lines of the Members section in order
RECURSIVE members_loop(_, _, _)
members_loop(d, lines, clerk_field) ==
    IF lines = << >> THEN d
    ELSE LET line == Head(lines)
             d1 == IF line_has_chair(line) THEN [d EXCEPT !.chair = split_name(line)] ELSE d
             d2 == IF line_has_clerk(line) THEN [d1 EXCEPT !.clerk = split_name(line)] ELSE d1
             d3 == IF d2.clerk = "" /\ clerk_field # "absent"
                   THEN [d2 EXCEPT !.clerk = clerk_field] ELSE d2
         IN  members_loop(d3, Tail(lines), clerk_field)

\* lines 77-101 and 109: the chair and the clerk, then the return
ExtractMembers ==
    /\ dpc = "named"
    /\ details.name # ""
    /\ details' = IF dpage.members_found
                  THEN members_loop(details, dpage.members, dpage.clerk_field)
                  ELSE details
    /\ dpc' = "returned"
    /\ UNCHANGED <<dpage, sel, notDetailVars>>

-----------------------------------------------------------------------------
(* error_tracker.ErrorTracker.  A record keeps the type, the message, the   *)
(* URL and the warning flag; the timestamp is left out.                     *)

ErrorKinds ==
    {"ParsingError", "FetchError", "TimeParseError", "BoardProcessError",
     "MeetingProcessError", "MeetingScrapeError", "ValidationError",
     "RelatedMeetingError", "FileDownloadError"}

\* lines 7-11: ErrorTracker(); error_counts is a defaultdict(int)
NewTracker ==
    [errors |-> << >>, error_counts |-> [k \in ErrorKinds |-> 0],
     total_errors |-> 0, total_warnings |-> 0]

\* lines 14-20: the record add_error builds
error_record(error_type, message, url, is_warning) ==
    [type |-> error_type, message |-> message, url |-> url, is_warning |-> is_warning]

\* lines 13-29: one whole call of add_error, run without interruption
add_error(t, error_type, message, url, is_warning) ==
    [errors |-> Append(t.errors, error_record(error_type, message, url, is_warning)),
     error_counts |-> [t.error_counts EXCEPT ![error_type] = @ + 1],
     total_errors |-> IF is_warning THEN t.total_errors ELSE t.total_errors + 1,
     total_warnings |-> IF is_warning THEN t.total_warnings + 1 ELSE t.total_warnings]

TrackerIdle == tracker = NewTracker

-----------------------------------------------------------------------------
(* mytowngov_homepage_scraper.scrape_homepage.  The page is read in         *)
(* document order: the boards heading, the boards table, the agencies       *)
(* heading, the agencies table.                                             *)

homepage_url == "https://www.mytowngovernment.org/01031"

all_meetings_url == "https://www.mytowngovernment.org/01031/calendar"

\* lines 87 and 132: the heading tags, tried in this order
heading_tags == <<"h1", "h2", "h3", "h4", "h5", "h6">>

\* the tag of a section heading on the page, "none" when the page has none
HeadingTags == {"none", "h1", "h2", "h6"}

\* the first cells of the rows with three cells or more of a table
BoardRows == {<< >>, <<"Planning Board">>, <<"", "Select Board (inactive)">>}

AgencyRows == {<< >>, <<"Regional School">>}

NoTable == [present |-> FALSE, rows |-> << >>]

Tables(rows) == {NoTable} \cup [present : {TRUE}, rows : rows]

HomePages ==
    [loaded : BOOLEAN,
     boards_tag : HeadingTags, boards_table : Tables(BoardRows),
     agencies_tag : HeadingTags, agencies_table : Tables(AgencyRows),
     view : {"unloaded", "no_table", "no_rows", "rows"}]

\* lines 107 and 152
is_active(name) == name # "Select Board (inactive)"

\* lines 110 and 155: name.replace("(inactive)", "").strip()
clean_name(name) == IF name = "Select Board (inactive)" THEN "Select Board" ELSE name

\* lines 99-119 and 144-164: the records of the rows of a table; a row
\* without a name is skipped
RECURSIVE table_entries(_)
table_entries(rows) ==
    IF rows = << >> THEN << >>
    ELSE LET name == Head(rows)
         IN  IF name # ""
             THEN <<[name |-> clean_name(name), active |-> is_active(name)]>>
                      \o table_entries(Tail(rows))
             ELSE table_entries(Tail(rows))

\* lines 95: boards_section.find_next('table'), the first table after the
\* boards heading
table_after_boards(pg) ==
    IF pg.boards_table.present THEN pg.boards_table ELSE pg.agencies_table

\* line 140: agencies_section.find_next('table')
table_after_agencies(pg) == pg.agencies_table

HomeIdle ==
    /\ hpc = "idle"
    /\ hpage = [loaded |-> TRUE, boards_tag |-> "none", boards_table |-> NoTable,
                agencies_tag |-> "none", agencies_table |-> NoTable,
                view |-> "unloaded"]
    /\ boards_section = FALSE
    /\ boards_data = << >>
    /\ agencies_data = << >>

notHomeVars == <<fetchVars, scrapeVars, detailVars, callVars, runVars, docVars, relVars, shareVars, downVars>>

\* lines 16-83: the lists, and the homepage loaded within max_retries
\* attempts or the early return of line 49
ScrapeHomepage ==
    /\ hpc = "idle"
    /\ boards_data' = << >>
    /\ agencies_data' = << >>
    /\ boards_section' = FALSE
    /\ hpc' = IF hpage.loaded THEN "boards" ELSE "returned"
    /\ UNCHANGED <<hpage, tracker, notHomeVars>>

\* lines 85-128: the Boards and Committees section
ExtractBoards ==
    /\ hpc = "boards"
    /\ hpc' = "agencies"
    /\ boards_section' = (hpage.boards_tag # "none")
    /\ LET table == table_after_boards(hpage)
           data == table_entries(table.rows)
       IN  IF hpage.boards_tag # "none"
           THEN IF table.present
                THEN /\ boards_data' = data
                     /\ tracker' = IF data = << >>
                                   THEN add_error(tracker, "ParsingError",
                                            "Parsed boards table but no valid boards were added",
                                            homepage_url, FALSE)
                                   ELSE tracker
                ELSE /\ tracker' = add_error(tracker, "ParsingError",
                                       "No boards table found", homepage_url, FALSE)
                     /\ UNCHANGED boards_data
           ELSE /\ tracker' = add_error(tracker, "ParsingError",
                                  "No boards section found", homepage_url, FALSE)
                /\ UNCHANGED boards_data
    /\ UNCHANGED <<hpage, agencies_data, notHomeVars>>

\* lines 131-137: the loop over the heading tags.  Line 134 tests
\* boards_section, not agencies_section: with a boards heading the loop
\* reads agencies_section.get_text in its first iteration (tag h1) and ends
\* there, raising AttributeError when the find gave None; without one the
\* loop never breaks and keeps the result of the last find (tag h6).
agencies_loop(found_boards, tag) ==
    IF found_boards
    THEN [raised |-> tag # heading_tags[1], found |-> tag = heading_tags[1]]
    ELSE [raised |-> FALSE, found |-> tag = heading_tags[Len(heading_tags)]]

\* lines 130-173: the Outside Agencies section
ExtractAgencies ==
    /\ hpc = "agencies"
    /\ LET loop == agencies_loop(boards_section, hpage.agencies_tag)
           table == table_after_agencies(hpage)
           data == table_entries(table.rows)
       IN  IF loop.raised
           THEN /\ hpc' = "raised"
                /\ UNCHANGED <<agencies_data, tracker>>
           ELSE /\ hpc' = "view"
                /\ IF loop.found
                   THEN IF table.present
                        THEN /\ agencies_data' = data
                             /\ tracker' = IF data = << >>
                                           THEN add_error(tracker, "ParsingError",
                                                    "Parsed agencies table but no valid agencies were added",
                                                    homepage_url, FALSE)
                                           ELSE tracker
                        ELSE /\ tracker' = add_error(tracker, "ParsingError",
                                               "No agencies table found", homepage_url, FALSE)
                             /\ UNCHANGED agencies_data
                   ELSE /\ tracker' = add_error(tracker, "ParsingError",
                                          "No agencies section found", homepage_url, FALSE)
                        /\ UNCHANGED agencies_data
    /\ UNCHANGED <<hpage, boards_section, boards_data, notHomeVars>>

\* line 23
max_retries == 3

\* lines 178-196: max_retries failed loads of the All Meetings view, each
\* with its FetchError record
RECURSIVE failed_loads(_, _)
failed_loads(t, n) ==
    IF n = 0 THEN t
    ELSE failed_loads(add_error(t, "FetchError", "Failed to load All Meetings view",
                                all_meetings_url, FALSE), n - 1)

\* lines 175-229: the All Meetings view.  A row of its table reaches
\* parse_time_to_timestamp (line 212), a name the module does not bind.
AllMeetings ==
    /\ hpc = "view"
    /\ CASE hpage.view = "unloaded" ->
                /\ tracker' = failed_loads(tracker, max_retries)
                /\ hpc' = "save"
         [] hpage.view = "no_table" ->
                /\ tracker' = add_error(tracker, "ParsingError",
                                  "No meetings table found in All Meetings view",
                                  all_meetings_url, FALSE)
                /\ hpc' = "save"
         [] hpage.view = "no_rows" ->
                /\ tracker' = add_error(tracker, "ParsingError",
                                  "Parsed All Meetings table but no valid meetings were added",
                                  all_meetings_url, FALSE)
                /\ hpc' = "save"
         [] OTHER ->
                /\ hpc' = "raised"
                /\ UNCHANGED tracker
    /\ UNCHANGED <<hpage, boards_section, boards_data, agencies_data, notHomeVars>>

\* lines 231-251: the CSV files are written and the lists returned
HomeReturn ==
    /\ hpc = "save"
    /\ hpc' = "returned"
    /\ UNCHANGED <<hpage, boards_section, boards_data, agencies_data, tracker, notHomeVars>>

-----------------------------------------------------------------------------
(* ErrorTracker.add_error called by the threads of a worker pool            *)
(* (use_scrapers.main, lines 361-366, hands the one tracker to every        *)
(* process_board).  The method takes no lock, so the threads interleave     *)
(* between its statements and between the read and the write of each +=.    *)

Workers == {"w1", "w2"}

MaxCalls == 2

NoAddError == [at |-> "idle", type |-> "BoardProcessError", is_warning |-> FALSE,
               loaded |-> 0, n |-> 0]

CallsIdle == calls = [w \in Workers |-> NoAddError]

notCallVars == <<fetchVars, scrapeVars, detailVars, homeVars, runVars, docVars, relVars, shareVars, downVars>>

\* lines 13-22: the call and the record it builds
CallAddError(w, error_type, is_warning) ==
    /\ calls[w].at = "idle"
    /\ calls[w].n < MaxCalls
    /\ calls' = [calls EXCEPT ![w] = [@ EXCEPT !.at = "append", !.type = error_type,
                                               !.is_warning = is_warning]]
    /\ UNCHANGED <<tracker, notCallVars>>

\* line 24: self.errors.append(error)
AppendRecord(w) ==
    /\ calls[w].at = "append"
    /\ tracker' = [tracker EXCEPT !.errors =
                       Append(@, error_record(calls[w].type, "failed", w, calls[w].is_warning))]
    /\ calls' = [calls EXCEPT ![w].at = "load_count"]
    /\ UNCHANGED notCallVars

\* line 25, the read of self.error_counts[error_type]
LoadCount(w) ==
    /\ calls[w].at = "load_count"
    /\ calls' = [calls EXCEPT ![w].at = "store_count",
                              ![w].loaded = tracker.error_counts[calls[w].type]]
    /\ UNCHANGED <<tracker, notCallVars>>

\* line 25, the write of self.error_counts[error_type]
StoreCount(w) ==
    /\ calls[w].at = "store_count"
    /\ tracker' = [tracker EXCEPT !.error_counts[calls[w].type] = calls[w].loaded + 1]
    /\ calls' = [calls EXCEPT ![w].at = "load_total"]
    /\ UNCHANGED notCallVars

\* lines 26-29, the read of self.total_warnings or of self.total_errors
LoadTotal(w) ==
    /\ calls[w].at = "load_total"
    /\ calls' = [calls EXCEPT ![w].at = "store_total",
                              ![w].loaded = IF calls[w].is_warning
                                            THEN tracker.total_warnings
                                            ELSE tracker.total_errors]
    /\ UNCHANGED <<tracker, notCallVars>>

\* lines 26-29, the write of the total, and the return
StoreTotal(w) ==
    /\ calls[w].at = "store_total"
    /\ tracker' = IF calls[w].is_warning
                  THEN [tracker EXCEPT !.total_warnings = calls[w].loaded + 1]
                  ELSE [tracker EXCEPT !.total_errors = calls[w].loaded + 1]
    /\ calls' = [calls EXCEPT ![w].at = "idle", ![w].n = @ + 1]
    /\ UNCHANGED notCallVars

-----------------------------------------------------------------------------
(* use_scrapers: main, process_board and process_meeting.  main submits one *)
(* process_board per board to a thread pool, each process_board submits one *)
(* process_meeting per meeting to a pool of its own; the pools hold three   *)
(* threads by default, so all the units below can run at the same time.     *)

Boards == {"b1", "b2"}

MeetingIds == {"m1", "m2", "m3"}

Units == Boards \cup MeetingIds

\* every meeting taken as listed on the first board
board_of_first(m) == "b1"

\* the board whose page lists the meeting
board_of(m) == IF m = "m3" THEN "b2" ELSE "b1"

\* what scrape_meeting returns with a meeting: the agenda text and the
\* documents with their File Path and PDF File Path
MeetingResults ==
    {[agenda |-> "No agenda available",
      docs |-> <<[file_path |-> "plan.pdf", pdf_path |-> "plan.pdf"]>>],
     [agenda |-> "1. Call to order",
      docs |-> <<[file_path |-> "minutes.doc", pdf_path |-> None]>>],
     [agenda |-> "1. Call to order",
      docs |-> <<[file_path |-> "minutes.doc", pdf_path |-> "minutes.pdf"]>>]}

NoResult == [agenda |-> None, docs |-> << >>]

FileStates == {"missing", "empty", "ok"}

NoValidation == [issues |-> << >>, disk |-> [m \in MeetingIds |-> "missing"]]

RunStart ==
    /\ mpc = "idle"
    /\ upc = [u \in Units |-> "none"]
    /\ failed = {}
    /\ scraped = [m \in MeetingIds |-> NoResult]
    /\ drivers = [u \in Units \cup {"main"} |-> [open |-> FALSE, users |-> {}]]
    /\ local_meeting_data = [b \in Boards |-> << >>]
    /\ local_documents = [b \in Boards |-> << >>]
    /\ collected = {}
    /\ all_meeting_data = << >>
    /\ all_documents = << >>
    /\ validation = NoValidation
    /\ summary = FALSE

\* lines 361 and 162: config.get("max_board_workers", 3) and
\* config.get("max_meeting_workers", 3)
DefaultConfig == [max_board_workers |-> 3, max_meeting_workers |-> 3]

\* the pool sizes a configuration may give
WorkerCounts == {1, 2}

Configs == [max_board_workers : WorkerCounts, max_meeting_workers : WorkerCounts]

RunIdle ==
    /\ config = DefaultConfig
    /\ RunStart

notRunVars == <<fetchVars, scrapeVars, detailVars, homeVars, callVars, docVars, relVars, shareVars, downVars>>

\* lines 106 and 201: driver = webdriver.Chrome(options=options), a session
\* of the unit's own; it is the driver the unit passes on (lines 115, 211)
own_driver_of_main(u) == "main"

own_driver(u) == u

\* lines 372-374: list.extend
extend_nothing(list, items) == list

extend(list, items) == list \o items

\* the session is navigated and read by the unit
Use(d, session, u) == [d EXCEPT ![session].users = @ \cup {u}]

\* the session is left open
Quit_never(d, session) == d

\* lines 186, 311, 444: driver.quit()
Quit(d, session) == [d EXCEPT ![session].open = FALSE]

\* line 361: ThreadPoolExecutor(max_workers=...), the process_board calls
\* that occupy a thread of main's pool
running_boards == {b \in Boards : upc[b] \in {"scrape", "collect"}}

\* line 162: the process_meeting calls that occupy a thread of the board's pool
running_meetings(b) ==
    {m \in MeetingIds : board_of(m) = b /\ upc[m] \in {"scrape", "append"}}

\* main, lines 315-328: the configuration, the tracker and main's driver
MainStart(ok) ==
    /\ mpc = "idle"
    /\ mpc' = IF ok THEN "homepage" ELSE "raised"
    /\ drivers' = IF ok THEN [drivers EXCEPT !["main"].open = TRUE] ELSE drivers
    /\ UNCHANGED <<upc, failed, scraped, local_meeting_data, local_documents, collected,
                   all_meeting_data, all_documents, validation, summary, tracker, config, notRunVars>>

\* main, lines 330-366 and 443-444: the homepage is scraped with main's
\* driver; the call raises, or returns no board (the page did not load, or
\* it has no boards section), or returns the boards, which are submitted
Homepage(outcome) ==
    /\ mpc = "homepage"
    /\ LET used == Use(drivers, "main", "main")
       IN  CASE outcome = "raise" ->
                    /\ mpc' = "raised"
                    /\ drivers' = Quit(used, "main")
                    /\ UNCHANGED <<upc, tracker>>
             [] outcome \in {"unloaded", "no_boards"} ->
                    /\ mpc' = "returned"
                    /\ drivers' = Quit(used, "main")
                    /\ tracker' = IF outcome = "no_boards"
                                  THEN add_error(tracker, "ParsingError",
                                           "No boards section found", homepage_url, FALSE)
                                  ELSE tracker
                    /\ UNCHANGED upc
             [] OTHER ->
                    /\ mpc' = "pool"
                    /\ drivers' = used
                    /\ upc' = [u \in Units |-> IF u \in Boards THEN "submitted" ELSE upc[u]]
                    /\ UNCHANGED tracker
    /\ UNCHANGED <<failed, scraped, local_meeting_data, local_documents, collected,
                   all_meeting_data, all_documents, validation, summary, config, notRunVars>>

\* process_board, lines 91-110: a thread of main's pool takes the call; the
\* board's own driver and its three lists; an exception here leaves
\* process_board
StartBoard(b, ok) ==
    /\ upc[b] = "submitted"
    /\ Cardinality(running_boards) < config.max_board_workers
    /\ upc' = [upc EXCEPT ![b] = IF ok THEN "scrape" ELSE "raised"]
    /\ drivers' = IF ok THEN [drivers EXCEPT ![b].open = TRUE] ELSE drivers
    /\ failed' = IF ok THEN failed ELSE failed \cup {b}
    /\ UNCHANGED <<mpc, scraped, local_meeting_data, local_documents, collected,
                   all_meeting_data, all_documents, validation, summary, tracker, config, notRunVars>>

\* process_board, lines 112-168 and 179-188: the board page is scraped with
\* the driver; an exception is recorded and ends the call, otherwise the
\* meetings are submitted to the board's pool with the board's lists
ScrapeBoard(b, raises) ==
    /\ upc[b] = "scrape"
    /\ LET used == Use(drivers, own_driver(b), b)
       IN  IF raises
           THEN /\ tracker' = add_error(tracker, "BoardProcessError", "Failed to process board",
                                        b, FALSE)
                /\ failed' = failed \cup {b}
                /\ drivers' = Quit(used, b)
                /\ upc' = [upc EXCEPT ![b] = "done"]
           ELSE /\ upc' = [u \in Units |->
                              IF u = b THEN "collect"
                              ELSE IF u \in MeetingIds /\ board_of(u) = b THEN "submitted"
                              ELSE upc[u]]
                /\ drivers' = used
                /\ UNCHANGED <<tracker, failed>>
    /\ UNCHANGED <<mpc, scraped, local_meeting_data, local_documents, collected,
                   all_meeting_data, all_documents, validation, summary, config, notRunVars>>

\* process_meeting, lines 190-201: a thread of the board's pool takes the
\* call; the meeting's own driver
StartMeeting(m, ok) ==
    /\ upc[m] = "submitted"
    /\ Cardinality(running_meetings(board_of(m))) < config.max_meeting_workers
    /\ upc' = [upc EXCEPT ![m] = IF ok THEN "scrape" ELSE "raised"]
    /\ drivers' = IF ok THEN [drivers EXCEPT ![m].open = TRUE] ELSE drivers
    /\ failed' = IF ok THEN failed ELSE failed \cup {m}
    /\ UNCHANGED <<mpc, scraped, local_meeting_data, local_documents, collected,
                   all_meeting_data, all_documents, validation, summary, tracker, config, notRunVars>>

\* process_meeting, lines 203-214 and 306-313: the meeting is skipped, or
\* scraped with the driver; scrape_meeting returns None or a meeting, or an
\* exception is recorded
ScrapeMeeting(m, outcome, result) ==
    /\ upc[m] = "scrape"
    /\ LET used == IF outcome = "skip" THEN drivers ELSE Use(drivers, own_driver(m), m)
       IN  CASE outcome = "raise" ->
                    /\ tracker' = add_error(tracker, "MeetingScrapeError",
                                            "Failed to process meeting", m, FALSE)
                    /\ failed' = failed \cup {m}
                    /\ drivers' = Quit(used, m)
                    /\ upc' = [upc EXCEPT ![m] = "done"]
                    /\ UNCHANGED scraped
             [] outcome \in {"skip", "none"} ->
                    /\ drivers' = Quit(used, m)
                    /\ upc' = [upc EXCEPT ![m] = "done"]
                    /\ UNCHANGED <<tracker, failed, scraped>>
             [] OTHER ->
                    /\ scraped' = [scraped EXCEPT ![m] = result]
                    /\ drivers' = used
                    /\ upc' = [upc EXCEPT ![m] = "append"]
                    /\ UNCHANGED <<tracker, failed>>
    /\ UNCHANGED <<mpc, local_meeting_data, local_documents, collected,
                   all_meeting_data, all_documents, validation, summary, config, notRunVars>>

\* process_meeting, lines 216-313: the meeting is appended to the board's
\* list, the agenda PDFs are merged and the documents added to the board's
\* list; an exception after the append is recorded and ends the call
AppendMeeting(m, raises) ==
    /\ upc[m] = "append"
    /\ local_meeting_data' = [local_meeting_data EXCEPT ![board_of(m)] =
           Append(@, [URL |-> m, Board |-> board_of(m), Agenda |-> scraped[m].agenda])]
    /\ IF raises
       THEN /\ tracker' = add_error(tracker, "MeetingScrapeError",
                                    "Failed to process meeting", m, FALSE)
            /\ failed' = failed \cup {m}
            /\ UNCHANGED local_documents
       ELSE /\ local_documents' = [local_documents EXCEPT ![board_of(m)] =
                                       extend(@, scraped[m].docs)]
            /\ UNCHANGED <<tracker, failed>>
    /\ drivers' = Quit(drivers, m)
    /\ upc' = [upc EXCEPT ![m] = "done"]
    /\ UNCHANGED <<mpc, scraped, collected, all_meeting_data, all_documents,
                   validation, summary, config, notRunVars>>

\* process_board, lines 169-177: the result of a finished meeting is read;
\* an exception that left process_meeting is recorded
CollectMeeting(b, m) ==
    /\ upc[b] = "collect"
    /\ board_of(m) = b
    /\ upc[m] \in {"done", "raised"}
    /\ m \notin collected
    /\ collected' = collected \cup {m}
    /\ tracker' = IF upc[m] = "raised"
                  THEN add_error(tracker, "MeetingProcessError", "Error processing meeting",
                                 m, FALSE)
                  ELSE tracker
    /\ UNCHANGED <<mpc, upc, failed, scraped, drivers, local_meeting_data, local_documents,
                   all_meeting_data, all_documents, validation, summary, config, notRunVars>>

\* process_board, lines 179-188: every meeting is read; the driver is quit
\* and the lists are returned
FinishBoard(b) ==
    /\ upc[b] = "collect"
    /\ \A m \in MeetingIds : board_of(m) = b => m \in collected
    /\ drivers' = Quit(drivers, b)
    /\ upc' = [upc EXCEPT ![b] = "done"]
    /\ UNCHANGED <<mpc, failed, scraped, local_meeting_data, local_documents, collected,
                   all_meeting_data, all_documents, validation, summary, tracker, config, notRunVars>>

\* main, lines 367-378: the result of a finished board is read and added to
\* main's lists; an exception that left process_board is recorded
CollectBoard(b) ==
    /\ mpc = "pool"
    /\ upc[b] \in {"done", "raised"}
    /\ b \notin collected
    /\ collected' = collected \cup {b}
    /\ IF upc[b] = "raised"
       THEN /\ tracker' = add_error(tracker, "BoardProcessError", "Error processing board",
                                    b, FALSE)
            /\ UNCHANGED <<all_meeting_data, all_documents>>
       ELSE /\ all_meeting_data' = extend(all_meeting_data, local_meeting_data[b])
            /\ all_documents' = extend(all_documents, local_documents[b])
            /\ UNCHANGED tracker
    /\ UNCHANGED <<mpc, upc, failed, scraped, drivers, local_meeting_data, local_documents,
                   validation, summary, config, notRunVars>>

\* line 408: the meeting has an agenda and its merged agenda PDF is missing
\* or empty
agenda_missing_only(meeting, disk) ==
    meeting.Agenda # "No agenda available" /\ disk[meeting.URL] = "missing"

agenda_missing(meeting, disk) ==
    meeting.Agenda # "No agenda available" /\ disk[meeting.URL] # "ok"

\* line 415: a .doc or .docx document without a PDF File Path
conversion_missing(doc) == doc.pdf_path = None /\ doc.file_path = "minutes.doc"

\* lines 404-412: the pass over the meetings; v holds the issues and the
\* tracker so far
RECURSIVE validate_meetings(_, _, _)
validate_meetings(list, disk, v) ==
    IF list = << >> THEN v
    ELSE validate_meetings(Tail(list), disk,
             IF agenda_missing(Head(list), disk)
             THEN [issues |-> Append(v.issues, Head(list).URL),
                   tracker |-> add_error(v.tracker, "ValidationError",
                                         "Missing or empty agenda PDF", Head(list).URL, FALSE)]
             ELSE v)

\* lines 414-419: the pass over the documents
RECURSIVE validate_documents(_, _)
validate_documents(list, v) ==
    IF list = << >> THEN v
    ELSE validate_documents(Tail(list),
             IF conversion_missing(Head(list))
             THEN [issues |-> Append(v.issues, Head(list).file_path),
                   tracker |-> add_error(v.tracker, "ValidationError",
                                         "Missing PDF conversion", Head(list).file_path, TRUE)]
             ELSE v)

\* main, lines 380-441: every board is read; the CSV files, the validation
\* pass, the validation report and the metadata
Validate(disk) ==
    /\ mpc = "pool"
    /\ Boards \subseteq collected
    /\ LET v == validate_documents(all_documents,
                    validate_meetings(all_meeting_data, disk,
                                      [issues |-> << >>, tracker |-> tracker]))
       IN  /\ validation' = [issues |-> v.issues, disk |-> disk]
           /\ tracker' = v.tracker
    /\ mpc' = "validated"
    /\ UNCHANGED <<upc, failed, scraped, drivers, local_meeting_data, local_documents,
                   collected, all_meeting_data, all_documents, summary, config, notRunVars>>

\* main, lines 443-466: main's driver is quit, the error summary is logged
\* and the error log written
Summary ==
    /\ mpc = "validated"
    /\ drivers' = Quit(drivers, "main")
    /\ summary' = TRUE
    /\ mpc' = "returned"
    /\ UNCHANGED <<upc, failed, scraped, local_meeting_data, local_documents, collected,
                   all_meeting_data, all_documents, validation, tracker, config, notRunVars>>

-----------------------------------------------------------------------------
(* mytowngov_meeting_scraper.scrape_meeting, lines 333-376: one downloaded  *)
(* document, its conversion to PDF and its record.  conv holds the inputs   *)
(* (the file name, whether the download left a non-empty file,              *)
(* force_redownload, what the converter does), the PDF file on disk and the *)
(* locals pdf_path and documents.                                           *)

\* line 335: doc_path.lower().endswith(('.doc', '.docx'))
is_legacy(file) == file \in {"minutes.doc", "notes.docx"}

DocIdle ==
    conv = [at |-> "idle", file |-> "minutes.doc", downloaded |-> TRUE,
            force_redownload |-> FALSE, converter |-> "ok", pdf_file |-> "missing",
            pdf_path |-> None, documents |-> << >>]

notDocVars == <<fetchVars, scrapeVars, trackVars, detailVars, homeVars, callVars, runVars, relVars, shareVars, downVars>>

\* lines 333-338 and 364-367: pdf_path before any conversion
CheckDocument ==
    /\ conv.at = "idle"
    /\ conv' = IF conv.downloaded /\ is_legacy(conv.file)
               THEN [conv EXCEPT !.pdf_path = "converted.pdf",
                                 !.at = IF conv.pdf_file = "missing" \/ conv.force_redownload
                                        THEN "convert" ELSE "record"]
               ELSE [conv EXCEPT !.pdf_path = IF conv.downloaded /\ conv.file = "plan.pdf"
                                              THEN conv.file ELSE None,
                                 !.at = "record"]
    /\ UNCHANGED notDocVars

\* lines 339-363: LibreOffice writes a PDF, an empty one or none, or the
\* call raises; pdf_path is kept when the file is there and not empty
Convert ==
    /\ conv.at = "convert"
    /\ LET after == CASE conv.converter = "ok" -> "ok"
                      [] conv.converter = "empty" -> "empty"
                      [] OTHER -> conv.pdf_file
           raised == conv.converter \in {"CalledProcessError", "FileNotFoundError",
                                         "TimeoutExpired"}
       IN  conv' = [conv EXCEPT !.pdf_file = after,
                                !.pdf_path = IF ~raised /\ after = "ok" THEN @ ELSE None,
                                !.at = "record"]
    /\ UNCHANGED notDocVars

\* lines 369-376: the document record
RecordDocument ==
    /\ conv.at = "record"
    /\ conv' = [conv EXCEPT !.documents = Append(@, [file_path |-> conv.file,
                                                     pdf_path |-> conv.pdf_path]),
                            !.at = "recorded"]
    /\ UNCHANGED notDocVars

-----------------------------------------------------------------------------
(* mytowngov_meeting_scraper.scrape_meeting: the related meetings.  Each     *)
(* call in progress is a frame of the interpreter's stack; a call that the  *)
(* interpreter refuses for want of stack raises RecursionError.             *)

\* the number of nested scrape_meeting calls the interpreter's recursion
\* limit leaves room for
RecursionLimit == 3

\* a row of the related meetings table: the number of its cells and the href
\* of the anchor of its last cell that matches 'meeting' ("no anchor": none)
RelatedRows ==
    [cells : {3}, href : MeetingUrls \cup {"no anchor"}]
    \cup {[cells |-> 2, href |-> "https://town/meeting?id=1"]}

RelatedTables ==
    {<< >>} \cup {<<r>> : r \in RelatedRows}
            \cup {<<r, q>> : r \in RelatedRows, q \in RelatedRows}

\* a meeting page: the related meetings heading, the table after it and the
\* rows of the table after the header row
RelatedPages ==
    {[related_section |-> FALSE, related_table |-> FALSE, rows |-> << >>],
     [related_section |-> TRUE, related_table |-> FALSE, rows |-> << >>]}
    \cup [related_section : {TRUE}, related_table : {TRUE}, rows : RelatedTables]

\* the site: the page of each meeting URL.  The table of a meeting lists
\* other meetings.
Sites ==
    {s \in [MeetingUrls -> RelatedPages] :
        \A u \in MeetingUrls : \A i \in 1..Len(s[u].rows) :
            s[u].rows[i].cells >= 3 => s[u].rows[i].href # u}

\* lines 398-402: the rows the loop of line 403 runs over
related_rows(page) ==
    IF page.related_section /\ page.related_table THEN page.rows ELSE << >>

\* lines 406-410: the row leads to a recursive call
follows(row) == row.cells >= 3 /\ row.href # "no anchor"

\* a call of scrape_meeting in progress: its URL, whether its page was
\* fetched (line 67) and the row its loop is at
Frame(url, html) == [url |-> url, html |-> html, row |-> 1]

RelIdle ==
    rel = [pc |-> "idle",
           site |-> [u \in MeetingUrls |->
                        [related_section |-> FALSE, related_table |-> FALSE, rows |-> << >>]],
           stack |-> << >>, started |-> << >>]

notRelVars == <<fetchVars, scrapeVars, detailVars, homeVars, callVars, runVars, docVars, shareVars, downVars>>

\* the frame on top of the stack
top == rel.stack[Len(rel.stack)]

\* the stack with the loop of its top frame moved to the next row
next_row(stack) == [stack EXCEPT ![Len(stack)].row = @ + 1]

\* lines 64-71: process_meeting calls scrape_meeting; the page is fetched or
\* fetch_page_content returns nothing
ScrapeMeetingCall(url, html) ==
    /\ rel.pc = "idle"
    /\ rel' = [rel EXCEPT !.pc = "running",
                          !.stack = <<Frame(url, html)>>,
                          !.started = <<url>>]
    /\ UNCHANGED <<tracker, notRelVars>>

\* lines 403-427: one row of the related meetings table.  The recursive call
\* of line 414 has no test of the URLs already on the stack.
RelatedRow(html) ==
    /\ rel.pc = "running"
    /\ top.html
    /\ top.row <= Len(related_rows(rel.site[top.url]))
    /\ LET row == related_rows(rel.site[top.url])[top.row]
       IN  IF ~follows(row)
           THEN /\ rel' = [rel EXCEPT !.stack = next_row(@)]
                /\ UNCHANGED tracker
           ELSE IF Len(rel.stack) >= RecursionLimit
           THEN \* RecursionError in the call, caught at line 425
                /\ rel' = [rel EXCEPT !.stack = next_row(@)]
                /\ tracker' = add_error(tracker, "RelatedMeetingError",
                                        "maximum recursion depth exceeded",
                                        row.href, FALSE)
           ELSE /\ rel' = [rel EXCEPT !.stack = Append(@, Frame(row.href, html)),
                                      !.started = Append(@, row.href)]
                /\ UNCHANGED tracker
    /\ UNCHANGED notRelVars

\* lines 69-71 and 435-436: the call returns, to the loop of its caller or to
\* process_meeting
RelatedReturn ==
    /\ rel.pc = "running"
    /\ ~top.html \/ top.row > Len(related_rows(rel.site[top.url]))
    /\ rel' = IF Len(rel.stack) = 1
              THEN [rel EXCEPT !.pc = "returned", !.stack = << >>]
              ELSE [rel EXCEPT !.stack = next_row(SubSeq(@, 1, Len(@) - 1))]
    /\ UNCHANGED <<tracker, notRelVars>>

-----------------------------------------------------------------------------
(* The Cache used by several threads on the same URL.  The cache is enabled *)
(* and the file, when there is one, is younger than ttl_hours.  A content   *)
(* is the sequence of its parts; a file holds what was written into it.     *)

Threads == {"t1", "t2", "t3"}

\* the pages the threads fetch: a longer and a shorter one
Contents == {<<"p1", "p2">>, <<"q1">>}

\* f.write(content) on a file opened with 'w': the content goes to the start
\* of the file, over what another writer has put there since the open
overlay(old, content) ==
    IF Len(old) > Len(content)
    THEN content \o SubSeq(old, Len(content) + 1, Len(old))
    ELSE content

\* line 96 for the contents of this part: `not content`
cached_rejected(content) == content = << >>

NoCacheCall == [op |-> "none", at |-> "idle", arg |-> << >>, linked |-> FALSE,
                kind |-> "none", data |-> << >>]

ShareIdle ==
    cio = [exists |-> FALSE, content |-> << >>, last |-> << >>,
           t |-> [w \in Threads |-> NoCacheCall]]

notShareVars == <<fetchVars, scrapeVars, trackVars, detailVars, homeVars, callVars, runVars, docVars, relVars, downVars>>

\* the call of thread w ends with this outcome
finish(w, kind, data) ==
    [cio EXCEPT !.t[w].at = "done", !.t[w].kind = kind, !.t[w].data = data]

\* lines 286-288: fetch_page asks the cache
StartRead(w) ==
    /\ cio.t[w].at = "idle"
    /\ cio' = [cio EXCEPT !.t[w] = [NoCacheCall EXCEPT !.op = "read", !.at = "exists"]]
    /\ UNCHANGED notShareVars

\* line 325: fetch_page stores the page it fetched
StartWrite(w, content) ==
    /\ cio.t[w].at = "idle"
    /\ cio' = [cio EXCEPT !.t[w] = [NoCacheCall EXCEPT !.op = "write", !.at = "open",
                                                     !.arg = content]]
    /\ UNCHANGED notShareVars

\* lines 86-87: invalidate_cache is called
StartEvict(w) ==
    /\ cio.t[w].at = "idle"
    /\ cio' = [cio EXCEPT !.t[w] = [NoCacheCall EXCEPT !.op = "evict", !.at = "inv_exists"]]
    /\ UNCHANGED notShareVars

\* line 69: is_cached, os.path.exists
ReadExists(w) ==
    /\ cio.t[w].at = "exists"
    /\ cio' = IF cio.exists THEN [cio EXCEPT !.t[w].at = "mtime"]
              ELSE finish(w, "not cached", << >>)
    /\ UNCHANGED notShareVars

\* lines 71-72: is_cached, os.path.getmtime
ReadMtime(w) ==
    /\ cio.t[w].at = "mtime"
    /\ cio' = IF cio.exists THEN [cio EXCEPT !.t[w].at = "read"]
              ELSE finish(w, "FileNotFoundError", << >>)
    /\ UNCHANGED notShareVars

\* lines 95-104: is_valid_cached_content reads the file and checks it
ReadCheck(w) ==
    /\ cio.t[w].at = "read"
    /\ cio' = IF ~cio.exists THEN finish(w, "FileNotFoundError", << >>)
              ELSE IF cached_rejected(cio.content)
              THEN IF logger_defined THEN [cio EXCEPT !.t[w].at = "inv_exists"]
                   ELSE finish(w, "NameError", << >>)
              ELSE [cio EXCEPT !.t[w].at = "reread"]
    /\ UNCHANGED notShareVars

\* line 288: get_cached once more, its result is what fetch_page returns
ReadAgain(w) ==
    /\ cio.t[w].at = "reread"
    /\ cio' = IF cio.exists THEN finish(w, "content", cio.content)
              ELSE finish(w, "FileNotFoundError", << >>)
    /\ UNCHANGED notShareVars

\* line 83: open(cache_file, 'w') creates the file or empties it
WriteOpen(w) ==
    /\ cio.t[w].at = "open"
    /\ cio' = [cio EXCEPT !.exists = TRUE, !.content = << >>,
                          !.t[w].at = "write", !.t[w].linked = TRUE]
    /\ UNCHANGED notShareVars

\* line 84: f.write(content) and the close of the file.  A file removed
\* since the open is written without coming back into the directory.
WriteContent(w) ==
    /\ cio.t[w].at = "write"
    /\ LET c == cio.t[w].arg
           after == finish(w, "none", << >>)
       IN  cio' = IF cio.t[w].linked
                  THEN [after EXCEPT !.content = overlay(cio.content, c), !.last = c]
                  ELSE [after EXCEPT !.last = c]
    /\ UNCHANGED notShareVars

\* line 88: invalidate_cache, os.path.exists
EvictExists(w) ==
    /\ cio.t[w].at = "inv_exists"
    /\ cio' = IF cio.exists THEN [cio EXCEPT !.t[w].at = "remove"]
              ELSE finish(w, IF cio.t[w].op = "read" THEN "not cached" ELSE "none", << >>)
    /\ UNCHANGED notShareVars

\* lines 89-90: os.remove, then the log statement
EvictRemove(w) ==
    /\ cio.t[w].at = "remove"
    /\ LET gone == [cio EXCEPT !.exists = FALSE, !.content = << >>,
                               !.t = [v \in Threads |-> [cio.t[v] EXCEPT !.linked = FALSE]]]
       IN  cio' = IF ~cio.exists THEN finish(w, "FileNotFoundError", << >>)
                  ELSE [gone EXCEPT !.t[w].at = "done",
                                    !.t[w].kind = IF ~logger_defined THEN "NameError"
                                                  ELSE IF cio.t[w].op = "read" THEN "not cached"
                                                  ELSE "none"]
    /\ UNCHANGED notShareVars

-----------------------------------------------------------------------------
(* mytowngov_meeting_scraper.scrape_meeting, lines 295-331: the download of *)
(* one document.  dl holds the file at doc_path, the counter attempts and   *)
(* the number of HTTP requests made.                                        *)

\* line 304
max_attempts == 3

\* error_tracker.add_error, lines 13-29, called with retry_count: the record
\* has the key 'retry_count' (lines 21-22)
add_error_retry(t, error_type, message, url, retry_count) ==
    [errors |-> Append(t.errors,
                       [type |-> error_type, message |-> message, url |-> url,
                        is_warning |-> FALSE, retry_count |-> retry_count]),
     error_counts |-> [t.error_counts EXCEPT ![error_type] = @ + 1],
     total_errors |-> t.total_errors + 1,
     total_warnings |-> t.total_warnings]

\* What one pass of the loop meets: the response has status 200 and the file
\* written is not empty ("ok") or empty ("empty"), the response has another
\* status ("status"), or requests.get raises ("exception")
DownloadOutcomes == {"ok", "empty", "status", "exception"}

DownIdle ==
    dl = [at |-> "idle", doc |-> "minutes.doc", file |-> "missing",
          attempts |-> 0, requests |-> 0]

notDownVars == <<fetchVars, scrapeVars, detailVars, homeVars, callVars, runVars, docVars, relVars, shareVars>>

\* lines 295-307: a document row with a link; the loop is entered
StartDownload ==
    /\ dl.at = "idle"
    /\ dl' = [dl EXCEPT !.at = "loop", !.attempts = 0, !.requests = 0]
    /\ UNCHANGED <<tracker, notDownVars>>

\* lines 308-331: one pass of the while loop
DownloadAttempt(outcome) ==
    /\ dl.at = "loop"
    /\ dl.attempts < max_attempts
    /\ LET n == dl.attempts + 1
           asked == [dl EXCEPT !.requests = @ + 1]
       IN  CASE outcome = "ok" ->
                    \* lines 311-318: break
                    /\ dl' = [asked EXCEPT !.file = "ok", !.at = "done"]
                    /\ UNCHANGED tracker
             [] outcome = "empty" ->
                    \* lines 319-321
                    /\ dl' = [asked EXCEPT !.file = "empty", !.attempts = n]
                    /\ UNCHANGED tracker
             [] outcome = "status" ->
                    \* lines 322-326
                    /\ dl' = [asked EXCEPT !.attempts = n]
                    /\ tracker' = IF n = max_attempts
                                  THEN add_error_retry(tracker, "FileDownloadError",
                                           "Failed to download document", dl.doc, n)
                                  ELSE tracker
             [] OTHER ->
                    \* lines 327-331
                    /\ dl' = [asked EXCEPT !.attempts = n]
                    /\ tracker' = IF n = max_attempts
                                  THEN add_error_retry(tracker, "FileDownloadError",
                                           "Error downloading document", dl.doc, n)
                                  ELSE tracker
    /\ UNCHANGED notDownVars

\* line 308: the condition of the while loop is false
DownloadGivenUp ==
    /\ dl.at = "loop"
    /\ dl.attempts >= max_attempts
    /\ dl' = [dl EXCEPT !.at = "done"]
    /\ UNCHANGED <<tracker, notDownVars>>

-----------------------------------------------------------------------------
(* The specifications *)

\* the parts of the program outside the cache, the fetcher and the meeting
\* extraction, before any of them has run
OtherIdle ==
    /\ TrackerIdle
    /\ DownIdle
    /\ ShareIdle
    /\ RelIdle
    /\ DocIdle
    /\ RunIdle
    /\ CallsIdle
    /\ HomeIdle
    /\ DetailsIdle

vars == <<files, enabled, lastop, pc, fp, obs,
          spc, meetings, seen_meetings, current_meeting, hist,
          tracker, dpc, dpage, details, sel,
          hpc, hpage, boards_section, boards_data, agencies_data,
          calls,
          mpc, upc, failed, scraped, drivers, local_meeting_data, local_documents, collected, all_meeting_data, all_documents, validation, summary, config,
          conv,
          rel,
          cio,
          dl>>

ScrapeIdle ==
    /\ spc = "idle"
    /\ meetings = << >>
    /\ seen_meetings = {}
    /\ current_meeting = NoCurrent
    /\ hist = NoHist

FetchIdle ==
    /\ files = [u \in Urls |-> NoFile]
    /\ lastop = NoOp
    /\ pc = "idle"
    /\ fp = NoCall
    /\ obs = NoObs

Init ==
    /\ FetchIdle
    /\ enabled \in BOOLEAN
    /\ ScrapeIdle
    /\ OtherIdle

Answers == {"nav_error", "blank_body", "disk_error", "loaded"}

Next ==
    \/ \E en \in BOOLEAN : NewCache(en)
    \/ Tick
    \/ \E u \in Urls : CallIsCached(u)
    \/ \E u \in Urls : CallGetCached(u)
    \/ \E u \in Urls, c \in Pages : CallCacheContent(u, c)
    \/ \E u \in Urls : CallInvalidateCache(u)
    \/ \E u \in Urls : CallIsValidCachedContent(u)
    \/ \E u \in Urls, b \in BOOLEAN, r \in 0..MaxRetries : FetchPage(u, b, r)
    \/ \E a \in Answers, p \in Pages, d \in DiskOutcomes :
           \* without a loaded page the attempt reads neither the page nor the disk
           /\ a # "loaded" => (p = "empty" /\ d = "ok")
           /\ Attempt(a, p, d)
    \/ Sleep
    \/ Return

\* the cache and the fetcher
Spec == Init /\ [][Next]_vars

ScrapeInit ==
    /\ FetchIdle
    /\ enabled = FALSE
    /\ ScrapeIdle
    /\ OtherIdle

ScrapeNext ==
    \/ ScrapeMeetings
    \/ \E row \in Rows : PastRow(row)
    \/ \E found \in BOOLEAN : EndPast(found)
    \/ \E elem \in Elements : UpcomingElement(elem)
    \/ Finalize
    \/ ScrapeReturn

\* the meeting extraction of one board page
ScrapeSpec == ScrapeInit /\ [][ScrapeNext]_vars

DetailsInit ==
    /\ FetchIdle
    /\ enabled = FALSE
    /\ ScrapeIdle
    /\ TrackerIdle
    /\ DownIdle
    /\ ShareIdle
    /\ RelIdle
    /\ DocIdle
    /\ RunIdle
    /\ CallsIdle
    /\ HomeIdle
    /\ dpc = "idle"
    /\ dpage \in DetailPages
    /\ details = NoDetails
    /\ sel = 0

DetailsNext ==
    \/ ScrapeBoardDetails
    \/ TrySelector
    \/ EndCascade
    \/ NoName
    \/ ExtractMembers

\* the extraction of the board details of one board page
DetailsSpec == DetailsInit /\ [][DetailsNext]_vars

HomeInit ==
    /\ FetchIdle
    /\ enabled = FALSE
    /\ ScrapeIdle
    /\ TrackerIdle
    /\ DownIdle
    /\ ShareIdle
    /\ RelIdle
    /\ DocIdle
    /\ RunIdle
    /\ CallsIdle
    /\ DetailsIdle
    /\ hpc = "idle"
    /\ hpage \in HomePages
    /\ boards_section = FALSE
    /\ boards_data = << >>
    /\ agencies_data = << >>

HomeNext ==
    \/ ScrapeHomepage
    \/ ExtractBoards
    \/ ExtractAgencies
    \/ AllMeetings
    \/ HomeReturn

\* the extraction of the boards and the agencies of the homepage
HomeSpec == HomeInit /\ [][HomeNext]_vars

TrackerNext ==
    \/ \E w \in Workers, k \in {"BoardProcessError", "MeetingScrapeError"}, b \in BOOLEAN :
           CallAddError(w, k, b)
    \/ \E w \in Workers : AppendRecord(w)
    \/ \E w \in Workers : LoadCount(w)
    \/ \E w \in Workers : StoreCount(w)
    \/ \E w \in Workers : LoadTotal(w)
    \/ \E w \in Workers : StoreTotal(w)

\* the one tracker of a run under the add_error calls of two pool threads
TrackerSpec == ScrapeInit /\ [][TrackerNext]_vars

RunNext ==
    \/ \E ok \in BOOLEAN : MainStart(ok)
    \/ \E o \in {"raise", "unloaded", "no_boards", "boards"} : Homepage(o)
    \/ \E b \in Boards, ok \in BOOLEAN : StartBoard(b, ok)
    \/ \E b \in Boards, r \in BOOLEAN : ScrapeBoard(b, r)
    \/ \E m \in MeetingIds, ok \in BOOLEAN : StartMeeting(m, ok)
    \/ \E m \in MeetingIds, o \in {"skip", "none", "raise"} : ScrapeMeeting(m, o, NoResult)
    \/ \E m \in MeetingIds, r \in MeetingResults : ScrapeMeeting(m, "meeting", r)
    \/ \E m \in MeetingIds, r \in BOOLEAN : AppendMeeting(m, r)
    \/ \E b \in Boards, m \in MeetingIds : CollectMeeting(b, m)
    \/ \E b \in Boards : FinishBoard(b)
    \/ \E b \in Boards : CollectBoard(b)
    \/ \E disk \in [MeetingIds -> FileStates] : Validate(disk)
    \/ Summary

\* a run starts with the pool sizes of its configuration
RunInit ==
    /\ FetchIdle
    /\ enabled = FALSE
    /\ ScrapeIdle
    /\ TrackerIdle
    /\ DownIdle
    /\ ShareIdle
    /\ RelIdle
    /\ DocIdle
    /\ CallsIdle
    /\ HomeIdle
    /\ DetailsIdle
    /\ RunStart
    /\ config \in Configs

\* one run of use_scrapers.main with its board and meeting workers
RunSpec == RunInit /\ [][RunNext]_vars

DocInit ==
    /\ FetchIdle
    /\ enabled = FALSE
    /\ ScrapeIdle
    /\ TrackerIdle
    /\ DownIdle
    /\ ShareIdle
    /\ RelIdle
    /\ DetailsIdle
    /\ HomeIdle
    /\ CallsIdle
    /\ RunIdle
    /\ conv \in [at : {"idle"},
                 file : {"minutes.doc", "notes.docx", "plan.pdf", "sheet.xls"},
                 downloaded : BOOLEAN, force_redownload : BOOLEAN,
                 converter : {"ok", "empty", "none", "CalledProcessError",
                              "FileNotFoundError", "TimeoutExpired"},
                 pdf_file : FileStates, pdf_path : {None}, documents : {<< >>}]

DocNext ==
    \/ CheckDocument
    \/ Convert
    \/ RecordDocument

\* the handling of one document row by scrape_meeting
DocSpec == DocInit /\ [][DocNext]_vars

RelInit ==
    /\ FetchIdle
    /\ enabled = FALSE
    /\ ScrapeIdle
    /\ TrackerIdle
    /\ DownIdle
    /\ ShareIdle
    /\ DetailsIdle
    /\ HomeIdle
    /\ CallsIdle
    /\ RunIdle
    /\ DocIdle
    /\ rel \in [pc : {"idle"}, site : Sites, stack : {<< >>}, started : {<< >>}]

RelNext ==
    \/ \E url \in MeetingUrls, html \in BOOLEAN : ScrapeMeetingCall(url, html)
    \/ \E html \in BOOLEAN : RelatedRow(html)
    \/ RelatedReturn

ShareInit ==
    /\ FetchIdle
    /\ enabled = TRUE
    /\ ScrapeIdle
    /\ TrackerIdle
    /\ DownIdle
    /\ DetailsIdle
    /\ HomeIdle
    /\ CallsIdle
    /\ RunIdle
    /\ DocIdle
    /\ RelIdle
    /\ \E c \in Contents \cup {<< >>} :
           cio = [exists |-> c # << >>, content |-> c, last |-> c,
                  t |-> [w \in Threads |-> NoCacheCall]]

ShareNext ==
    \E w \in Threads :
        \/ StartRead(w)
        \/ \E c \in Contents : StartWrite(w, c)
        \/ StartEvict(w)
        \/ ReadExists(w)
        \/ ReadMtime(w)
        \/ ReadCheck(w)
        \/ ReadAgain(w)
        \/ WriteOpen(w)
        \/ WriteContent(w)
        \/ EvictExists(w)
        \/ EvictRemove(w)

DownInit ==
    /\ FetchIdle
    /\ enabled = FALSE
    /\ ScrapeIdle
    /\ TrackerIdle
    /\ DetailsIdle
    /\ HomeIdle
    /\ CallsIdle
    /\ RunIdle
    /\ DocIdle
    /\ RelIdle
    /\ ShareIdle
    /\ dl \in [at : {"idle"},
                doc : {"minutes.doc", "notes.docx", "plan.pdf", "sheet.xls"},
                file : FileStates, attempts : {0}, requests : {0}]

DownNext ==
    \/ StartDownload
    \/ \E outcome \in DownloadOutcomes : DownloadAttempt(outcome)
    \/ DownloadGivenUp

\* the download of one document by scrape_meeting
DownSpec == DownInit /\ [][DownNext]_vars

\* the threads of one run on the cache file of one URL
ShareSpec == ShareInit /\ [][ShareNext]_vars

\* scrape_meeting and the related meetings it follows
RelSpec == RelInit /\ [][RelNext]_vars

-----------------------------------------------------------------------------
(* Properties of the cache and of fetch_page, checked under Spec *)

\* the validity of a cache entry, as the specification states it
EntryValid(f, en, url) ==
    /\ en
    /\ f[url].exists
    /\ f[url].age < TtlHours
    /\ Text(f[url].content).strip >= MinContentLen
    /\ ~Text(f[url].content).emptyBody
    /\ Text(f[url].content).markers \cap Markers # {}

CallOver == pc \in {"returned", "raised"}

\* C1: in fetch_page without bypass_cache, cached content is returned only
\* if the entry is valid; an existing entry that fails the validity check is
\* never returned, it is evicted and a browser fetch happens in the same call.
C1_InvalidEntryEvictedAndRefetched ==
    (CallOver /\ ~fp.bypass_cache) =>
        /\ obs.fromCache => EntryValid(obs.before, obs.en, fp.url)
        /\ (obs.before[fp.url].exists /\ ~EntryValid(obs.before, obs.en, fp.url)) =>
              (~obs.fromCache /\ obs.evicted /\ obs.navs >= 1)

\* C2 as stated: every return of fetch_page without bypass_cache yields
\* content that is non-empty, has no '<body></body>', has the minimum length
\* and contains a marker string.
C2_ReturnedContentValid ==
    (pc = "returned" /\ ~fp.bypass_cache /\ fp.content # None) =>
        /\ Text(fp.content).raw > 0
        /\ ~Text(fp.content).emptyBody
        /\ Text(fp.content).strip >= MinContentLen
        /\ Text(fp.content).markers \cap Markers # {}

\* C2 amended: content returned by fetch_page without bypass_cache after a
\* cache hit or a successful attempt is non-empty, has no '<body></body>' and
\* has the minimum length; it contains a marker string when it was read from
\* the cache.
C2_ReturnedContentWellFormed ==
    (pc = "returned" /\ ~fp.bypass_cache /\ (obs.fromCache \/ obs.okAt >= 0)) =>
        /\ fp.content # None
        /\ Text(fp.content).raw > 0
        /\ ~Text(fp.content).emptyBody
        /\ Text(fp.content).strip >= MinContentLen
        /\ obs.fromCache => Text(fp.content).markers \cap Markers # {}

\* a fresh fetch returned a page that has no marker string
C2_Witness ==
    /\ pc = "returned"
    /\ ~fp.bypass_cache
    /\ ~obs.fromCache
    /\ obs.okAt >= 0
    /\ fp.content # None
    /\ Text(fp.content).markers = {}

\* C3: fetch_page navigates at most `retries` times, for any attempt count;
\* when no attempt succeeds it fails with an error, and it never returns
\* without content.
C3_BoundedAttemptsAndNeverEmpty ==
    /\ obs.navs <= fp.retries
    /\ (CallOver /\ ~obs.fromCache /\ obs.okAt < 0) => pc = "raised"
    /\ pc = "returned" => fp.content # None

\* C4: with bypass_cache false and a valid entry for the URL, fetch_page
\* returns the entry's content at once: no navigation, no sleep, no cache
\* write.
C4_ValidHitReturnsAtOnce ==
    (pc # "idle" /\ ~fp.bypass_cache /\ EntryValid(obs.before, obs.en, fp.url)) =>
        /\ pc = "returned"
        /\ obs.fromCache
        /\ fp.content = obs.before[fp.url].content
        /\ obs.navs = 0 /\ obs.sleeps = 0 /\ obs.writes = 0
        /\ \A u \in Urls : /\ files[u].exists = obs.before[u].exists
                           /\ files[u].content = obs.before[u].content

\* a call that found a valid entry has returned
C4_Witness ==
    /\ pc = "returned"
    /\ ~fp.bypass_cache
    /\ EntryValid(obs.before, obs.en, fp.url)
    /\ fp.content = obs.before[fp.url].content

\* C5: when an attempt succeeds and the cache is enabled, the returned
\* content is what the URL's cache entry holds on return, written once, and
\* no navigation follows the successful attempt.
C5_SuccessIsCachedAndEndsLoop ==
    obs.okAt >= 0 =>
        /\ pc = "returned"
        /\ obs.okAt = fp.attempt
        /\ obs.navs = obs.okAt + 1
        /\ obs.en => /\ files[fp.url].exists
                     /\ files[fp.url].content = fp.content
                     /\ obs.writes = 1

\* the second attempt succeeded with the cache enabled, over another entry
C5_Witness ==
    /\ pc = "returned"
    /\ obs.okAt = 1
    /\ obs.en
    /\ obs.before[fp.url].exists
    /\ obs.before[fp.url].content # fp.content

\* C6: is_valid_cached_content returns true iff the cache is enabled, an
\* entry exists, its age is below the TTL, its stripped length is at least
\* 100, it has no '<body></body>' and it contains a marker string.
C6_ValidIffAllConditions ==
    lastop.name = "is_valid_cached_content" =>
        ((lastop.exc = "none" /\ lastop.ret)
            <=> EntryValid(lastop.before, lastop.en, lastop.url))

\* is_valid_cached_content returned true for an entry one URL has, while the
\* other URL's entry is expired
C6_Witness ==
    /\ lastop.name = "is_valid_cached_content"
    /\ lastop.exc = "none"
    /\ lastop.ret
    /\ \E u \in Urls : lastop.before[u].exists /\ lastop.before[u].age = TtlHours

\* C7: whenever is_valid_cached_content returns false for a URL that has an
\* entry on disk, the entry has been removed when the call returns (stated
\* for an enabled cache, the case of every reason the claim lists).
C7_FalseMeansEvicted ==
    (/\ lastop.name = "is_valid_cached_content"
     /\ lastop.en
     /\ lastop.exc = "none"
     /\ ~lastop.ret
     /\ lastop.before[lastop.url].exists) => ~files[lastop.url].exists

\* C8: no Cache method ever raises, and no fetch_page call fails with an
\* error of the cache.
C8_CacheNeverRaises ==
    /\ lastop.exc = "none"
    /\ obs.exc \notin {"NameError", "FileNotFoundError"}

-----------------------------------------------------------------------------
(* Properties of _scrape_meetings, checked under ScrapeSpec *)

Range(seq) == {seq[i] : i \in 1..Len(seq)}

Count(seq, x) == Cardinality({i \in 1..Len(seq) : seq[i] = x})

NoDuplicates(seq) == \A i, j \in 1..Len(seq) : i # j => seq[i] # seq[j]

RECURSIVE FirstOccurrences(_)
FirstOccurrences(seq) ==
    IF seq = << >> THEN << >>
    ELSE LET front == SubSeq(seq, 1, Len(seq) - 1)
             last == seq[Len(seq)]
         IN  IF last \in Range(front) THEN FirstOccurrences(front)
             ELSE Append(FirstOccurrences(front), last)

Emitted(key) == key \in Range(hist.ekeys)

\* the date string matches one of the formats of the cascade
DateParses(date_str) ==
    DateText(DateText(date_str).norm).shape \in
        {"%b %d, %Y %I:%M %p %Z", "%b %d, %Y %I:%M %p", "%B %d, %Y %I:%M %p",
         "%Y-%m-%d %H:%M:%S", "%B %d, %Y"}

\* the emitted meetings are those of the emitted keys
KeysOfMeetings ==
    /\ Len(meetings) = Len(hist.ekeys)
    /\ \A i \in 1..Len(meetings) :
          /\ meetings[i].board_name = hist.ekeys[i][1]
          /\ meetings[i].details_url = hist.ekeys[i][3]
          /\ meetings[i].date = DateText(hist.ekeys[i][2]).value

\* C9: no two emitted meetings share the key (board_name, raw date string,
\* details_url), and the emitted meetings are in the order of the first
\* occurrence of their keys among the candidates.
C9_DistinctKeysInFirstOccurrenceOrder ==
    /\ KeysOfMeetings
    /\ NoDuplicates(hist.ekeys)
    /\ hist.ekeys = FirstOccurrences(SelectSeq(hist.cands, Emitted))

\* two meetings were emitted and the first one's key came again, from the
\* Upcoming Meetings scan
C9_Witness ==
    /\ spc = "done"
    /\ Len(hist.ekeys) = 2
    /\ Len(hist.cands) = 3
    /\ hist.cands[3] = hist.cands[1]
    /\ current_meeting.date = hist.cands[1][2]

\* C10 as stated: a key that occurs twice or more among the candidates is
\* the key of exactly one emitted meeting.
C10_DuplicatesEmittedOnce ==
    \A key \in Range(hist.cands) :
        Count(hist.cands, key) >= 2 => Count(hist.ekeys, key) = 1

\* C10 amended: a key that occurs twice or more among the candidates is the
\* key of exactly one emitted meeting when its date string matches a format
\* of the cascade, and of none when it matches no format.
C10_DuplicatesEmittedOnceIfParsed ==
    \A key \in Range(hist.cands) :
        Count(hist.cands, key) >= 2 =>
            Count(hist.ekeys, key) = (IF DateParses(key[2]) THEN 1 ELSE 0)

\* a key came three times and one meeting has it
C10_Witness ==
    \E key \in Range(hist.cands) :
        /\ Count(hist.cands, key) = 3
        /\ Count(hist.ekeys, key) = 1
        /\ Len(meetings) = 1

-----------------------------------------------------------------------------
(* Properties of the error reporting of the extraction, under ScrapeSpec *)

\* C11: a candidate whose date string matches none of the formats is dropped
\* from the output, and a TimeParseError record is in the run's error tracker
C11_UnparseableDroppedAndRecorded ==
    \A i \in 1..Len(hist.cands) :
        ~DateParses(hist.cands[i][2]) =>
            /\ ~Emitted(hist.cands[i])
            /\ \E j \in 1..Len(tracker.errors) :
                   tracker.errors[j].type = "TimeParseError"

-----------------------------------------------------------------------------
(* Properties of the board details, under DetailsSpec *)

\* the strategy with index k would yield a non-empty name on the page
YieldsName(k) == dpage.sel[k] \notin {"timeout", "error", ""}

\* C12: when the page has a body and some strategy would yield a non-empty
\* name, the name returned is the one of the earliest such strategy
C12_EarliestNonEmptyStrategyWins ==
    (/\ dpc = "returned"
     /\ dpage.body
     /\ \A k \in 1..4 : dpage.sel[k] # "error"
     /\ \E k \in 1..4 : YieldsName(k))
    => LET first == CHOOSE k \in 1..4 :
                        YieldsName(k) /\ \A j \in 1..(k - 1) : ~YieldsName(j)
       IN  details.name = dpage.sel[first]

-----------------------------------------------------------------------------
(* Properties of the homepage extraction, under HomeSpec *)

HomeOver == hpc \in {"returned", "raised"}

\* the tracker holds a warning-level ParsingError record with this message
WarnedParsing(message) ==
    \E j \in 1..Len(tracker.errors) :
        /\ tracker.errors[j].type = "ParsingError"
        /\ tracker.errors[j].message = message
        /\ tracker.errors[j].is_warning

\* C13: once the homepage is loaded, a section without its heading or without
\* its table is recorded as a warning-level ParsingError, scrape_homepage does
\* not raise, and the records of the other section are still returned
C13_MissingSectionRecordedNotFatal ==
    (HomeOver /\ hpage.loaded /\ hpage.view # "rows") =>
        /\ hpc = "returned"
        /\ hpage.boards_tag = "none" => WarnedParsing("No boards section found")
        /\ hpage.agencies_tag = "none" => WarnedParsing("No agencies section found")
        /\ (hpage.boards_tag # "none" /\ ~hpage.boards_table.present
                /\ ~hpage.agencies_table.present)
               => WarnedParsing("No boards table found")
        /\ (hpage.agencies_tag # "none" /\ ~hpage.agencies_table.present)
               => WarnedParsing("No agencies table found")
        /\ (hpage.boards_tag # "none" /\ hpage.boards_table.present)
               => boards_data = table_entries(hpage.boards_table.rows)
        /\ (hpage.agencies_tag # "none" /\ hpage.agencies_table.present)
               => agencies_data = table_entries(hpage.agencies_table.rows)

-----------------------------------------------------------------------------
(* Properties of the error tracker under concurrent calls, under TrackerSpec *)

RECURSIVE SumCounts(_)
SumCounts(kinds) ==
    IF kinds = {} THEN 0
    ELSE LET k == CHOOSE x \in kinds : TRUE
         IN  tracker.error_counts[k] + SumCounts(kinds \ {k})

\* C16: when no add_error call is in progress, the number of records is the
\* sum of the two totals and the sum of the counts by kind
C16_ConcurrentAppendKeepsCounts ==
    (\A w \in Workers : calls[w].at = "idle") =>
        /\ Len(tracker.errors) = tracker.total_errors + tracker.total_warnings
        /\ Len(tracker.errors) = SumCounts(ErrorKinds)

-----------------------------------------------------------------------------
(* Properties of a run of the orchestrator, under RunSpec *)

\* main has read the result of every board
PoolsOver == mpc \in {"validated", "returned"} /\ Boards \subseteq collected

\* the tracker holds a record of a failed unit with the unit's URL
UnitRecorded(u) ==
    \E j \in 1..Len(tracker.errors) :
        /\ tracker.errors[j].url = u
        /\ tracker.errors[j].type \in
               {"BoardProcessError", "MeetingProcessError", "MeetingScrapeError"}

\* the meeting unit returned a meeting and met no exception
Succeeded(m) == upc[m] = "done" /\ m \notin failed /\ scraped[m] # NoResult

\* C14: once main has read every board, each unit that met an exception has
\* an error record, every submitted unit has run to its end, and the meeting
\* and the documents of every successful meeting unit are in main's lists
C14_FailedUnitsIsolated ==
    PoolsOver =>
        /\ \A u \in failed : UnitRecorded(u)
        /\ \A u \in Units : upc[u] \in {"none", "done", "raised"}
        /\ \A m \in MeetingIds : Succeeded(m) =>
               /\ \E i \in 1..Len(all_meeting_data) :
                      /\ all_meeting_data[i].URL = m
                      /\ all_meeting_data[i].Agenda = scraped[m].agenda
               /\ \A k \in 1..Len(scraped[m].docs) :
                      scraped[m].docs[k] \in Range(all_documents)

\* a board fails before its try block, a meeting of the other board fails
\* while being scraped, and the second meeting of that board is aggregated
C14_Witness ==
    /\ PoolsOver
    /\ upc["b2"] = "raised"
    /\ "m1" \in failed
    /\ Succeeded("m2")
    /\ Len(all_meeting_data) >= 1

\* C15: a browser session is navigated and read by the unit that created it
\* and by no other
C15_OwnSessionOnly ==
    \A session \in DOMAIN drivers : drivers[session].users \subseteq {session}

\* a board and both of its meeting workers have their sessions open and in use
C15_Witness ==
    /\ \A u \in {"b1", "m1", "m2"} : drivers[u].open /\ drivers[u].users = {u}
    /\ drivers["main"].users = {"main"}

\* C17: two workers that run at the same time are never both at the append
\* to one and the same list
C17_NoListWrittenByTwoWorkers ==
    \A m1, m2 \in MeetingIds :
        (m1 # m2 /\ upc[m1] = "append" /\ upc[m2] = "append")
            => board_of(m1) # board_of(m2)

\* C18: a run of main that has gone as far as the homepage extraction and is
\* over has logged the error summary and written the error log
C18_EveryRunEmitsSummary ==
    (mpc \in {"returned", "raised"} /\ drivers["main"].users # {}) => summary

\* the aggregated meetings with an agenda whose merged PDF is missing or empty
FlaggedMeetings ==
    {i \in 1..Len(all_meeting_data) :
        /\ all_meeting_data[i].Agenda # "No agenda available"
        /\ validation.disk[all_meeting_data[i].URL] \in {"missing", "empty"}}

\* the aggregated .doc documents without a PDF conversion
FlaggedDocuments ==
    {i \in 1..Len(all_documents) :
        all_documents[i].file_path = "minutes.doc" /\ all_documents[i].pdf_path = None}

ValidationRecords ==
    {j \in 1..Len(tracker.errors) : tracker.errors[j].type = "ValidationError"}

\* C19: after the validation pass there is one issue and one ValidationError
\* record for each flagged meeting and each flagged document, and no other
C19_OneIssuePerViolation ==
    PoolsOver =>
        /\ Len(validation.issues) = Cardinality(FlaggedMeetings) + Cardinality(FlaggedDocuments)
        /\ Cardinality(ValidationRecords) = Len(validation.issues)
        /\ \A i \in FlaggedMeetings : Count(validation.issues, all_meeting_data[i].URL) = 1

\* a meeting with an empty merged PDF, one with a good one, and a document
\* without conversion have gone through the pass
C19_Witness ==
    /\ mpc = "validated"
    /\ \E i \in FlaggedMeetings : validation.disk[all_meeting_data[i].URL] = "empty"
    /\ \E i \in 1..Len(all_meeting_data) :
           /\ all_meeting_data[i].Agenda # "No agenda available"
           /\ validation.disk[all_meeting_data[i].URL] = "ok"
    /\ FlaggedDocuments # {}

-----------------------------------------------------------------------------
(* Properties of the document records, under DocSpec *)

\* C20: the record of a .doc or .docx document has a PDF path only when the
\* PDF file is on disk and not empty
C20_PdfPathOnlyIfVerified ==
    \A i \in 1..Len(conv.documents) :
        (conv.documents[i].file_path \in {"minutes.doc", "notes.docx"}
            /\ conv.documents[i].pdf_path # None)
        => conv.pdf_file = "ok"

-----------------------------------------------------------------------------
(* Properties of the related meetings, under RelSpec *)

\* C21: when scrape_meeting has returned, every related meeting it met a link
\* to has had the extraction: no call was refused for want of stack
C21_EveryLinkedMeetingExtracted ==
    rel.pc = "returned" =>
        \A i \in 1..Len(tracker.errors) : tracker.errors[i].type # "RelatedMeetingError"

-----------------------------------------------------------------------------
(* Properties of the shared cache, under ShareSpec *)

\* the threads whose call was of this kind
Did(op) == {w \in Threads : cio.t[w].op = op}

\* C22: a thread that asks the cache while others write or evict gets one
\* whole content or "not cached", never a part of a content, a mixture or an
\* error; and when writers and no evictor have run and all are done, the file
\* holds the content of the last write
C22_ConcurrentUseIsSafe ==
    /\ \A w \in Did("read") :
           cio.t[w].at = "done" =>
               \/ cio.t[w].kind = "not cached"
               \/ cio.t[w].kind = "content" /\ cio.t[w].data \in Contents
    /\ ( /\ Did("write") # {}
         /\ Did("evict") = {}
         /\ \A w \in Threads : cio.t[w].at \in {"idle", "done"} )
       => (cio.exists /\ cio.content = cio.last)

-----------------------------------------------------------------------------
(* Properties of the order of the units, under RunSpec *)

\* the board of the site that lists the meeting
ListedOn(m) == IF m \in {"m1", "m2"} THEN "b1" ELSE "b2"

\* C23: a board unit exists only once the homepage extraction has returned
\* boards, a meeting unit only once the extraction of its board has returned,
\* and a run whose homepage extraction gave no boards has no unit at all
C23_HomepageThenBoardThenMeeting ==
    /\ \A b \in Boards :
           upc[b] # "none" => mpc \in {"pool", "validated", "returned"}
    /\ \A m \in MeetingIds :
           upc[m] # "none" => upc[ListedOn(m)] \in {"collect", "done"}
    /\ (mpc \in {"returned", "raised"} /\ ~summary) => \A u \in Units : upc[u] = "none"

\* a meeting of the second board is being scraped while the first board has
\* not begun its extraction
C23_Witness ==
    /\ upc["m3"] = "scrape"
    /\ upc["b2"] = "collect"
    /\ upc["b1"] = "submitted"

-----------------------------------------------------------------------------
(* Properties of the Upcoming Meetings scan, under ScrapeSpec *)

\* line 263 and line 284: the texts the claim names as the end of a meeting
ends_meeting(text) == is_boundary(text) \/ text = "Details and Agenda"

\* C24: a step of the scan of the Upcoming Meetings section that reads a
\* section boundary or a 'Details and Agenda' marker leaves the pending
\* meeting reset, so that the fields read next start a new record
C24_MarkerFlushesPendingMeeting ==
    [][(\E e \in Elements : ends_meeting(e.text) /\ UpcomingElement(e))
          => current_meeting' = NoCurrent]_vars

\* C25: a step of the scan that reads an anchor with a text and with
\* 'meeting' in its href leaves that href as the details URL of the pending
\* meeting, whatever the text of the anchor is
C25_MeetingAnchorSetsDetailsUrl ==
    [][\A e \in Elements :
          (e.tag = "a" /\ e.text # "" /\ href_is_meeting(e.href) /\ UpcomingElement(e))
              => current_meeting'.details_url = e.href]_vars

-----------------------------------------------------------------------------
(* Properties of the download of a document, under DownSpec *)

\* the FileDownloadError records of the tracker
DownloadErrors == {i \in 1..Len(tracker.errors) : tracker.errors[i].type = "FileDownloadError"}

\* C26: the download loop makes three HTTP requests at most, and when it
\* ends with three failed attempts the tracker has exactly one
\* FileDownloadError record, which carries the retry count
C26_ThreeAttemptsThenOneRecord ==
    /\ dl.requests <= 3
    /\ (dl.at = "done" /\ dl.attempts = 3) =>
           /\ Cardinality(DownloadErrors) = 1
           /\ \A i \in DownloadErrors : tracker.errors[i].retry_count = 3

-----------------------------------------------------------------------------
(* Properties of the retry loop of fetch_page, under Spec *)

\* C27: the attempts of a fetch_page call come one after another, each one
\* but the first after the sleep that follows the failure before it; and a
\* call with retries = N >= 1 whose attempts all failed has made N
\* navigations and N - 1 sleeps and raises the error of its last attempt
C27_FailedAttemptsInSequence ==
    /\ pc = "attempt" => (obs.navs = fp.attempt /\ obs.sleeps = fp.attempt)
    /\ pc = "sleep" => (obs.navs = fp.attempt + 1 /\ obs.sleeps = fp.attempt)
    /\ (pc = "raised" /\ obs.navs >= 1) =>
           /\ obs.okAt < 0
           /\ obs.navs = fp.retries
           /\ obs.sleeps = fp.retries - 1
           /\ fp.attempt = fp.retries - 1
           /\ obs.exc \in {"WebDriverException", "ValueError", "OSError"}

\* a call with retries = 2 has failed twice and raises
C27_Witness ==
    /\ pc = "raised"
    /\ fp.retries = 2
    /\ obs.navs = 2
    /\ obs.sleeps = 1

EntryAsBefore(u) ==
    /\ files[u].exists = obs.before[u].exists
    /\ files[u].content = obs.before[u].content

\* C29: while a fetch_page call is in progress the entries of the other URLs
\* are as they were, and with bypass_cache true the entry of the URL is as
\* it was as long as no attempt has succeeded: a failed attempt writes
\* nothing, and a call that exhausts its retries leaves the entry unchanged
C29_FailedAttemptsLeaveCache ==
    pc # "idle" =>
        /\ \A u \in Urls \ {fp.url} : EntryAsBefore(u)
        /\ (fp.bypass_cache /\ obs.okAt < 0) => EntryAsBefore(fp.url)


\* the sessions that are open
open_sessions == {session \in DOMAIN drivers : drivers[session].open}

\* C30: the session that main, process_board or process_meeting created is
\* quit when the function has returned or raised, no session is open when
\* the run has ended, and the open sessions never number more than
\* 1 + max_board_workers * (1 + max_meeting_workers)
C30_SessionsQuitAndBounded ==
    /\ \A u \in Units : upc[u] \in {"done", "raised"} => ~drivers[u].open
    /\ mpc \in {"returned", "raised"} => open_sessions = {}
    /\ Cardinality(open_sessions) <=
           1 + config.max_board_workers * (1 + config.max_meeting_workers)

\* the pools are full, every thread with its session, after a meeting that
\* used its session has returned
C30_Witness ==
    /\ Cardinality(open_sessions) =
           1 + config.max_board_workers * (1 + config.max_meeting_workers)
    /\ \E m \in MeetingIds : /\ upc[m] = "done"
                              /\ drivers[m].users = {m}
                              /\ ~drivers[m].open

====
